---- MODULE Spec2Model ----
(***************************************************************************)
(* Data-governance pipeline: connection adapter, metadata extractor,       *)
(* lineage tracker, data-quality validator and the orchestrator that       *)
(* sequences them.  The warehouse is the environment: every call the       *)
(* adapter makes is answered by a stub whose answer (failure, or the rows  *)
(* returned) is drawn from a bounded set.                                  *)
(***************************************************************************)
EXTENDS Integers, Sequences, FiniteSets, TLC

VARIABLES
    sf,               \* SnowflakeConnection: self.connection and the driver's open connections
    pl_connection,    \* GovernancePipeline.connection: "None" or "adapter"
    pc,               \* position of the caller inside run_full_pipeline / the component under test
    config,           \* the loaded configuration (tracked_databases, export_json, rule switches)
    results,          \* run_full_pipeline's result record
    exc,              \* the exception in flight ("none" when there is none)
    steps,            \* the pipeline steps started and returned, in order
    faults,           \* which kinds of warehouse / file calls have failed so far
    idx,              \* loop index of the database / table loop in progress
    catalog,          \* extract_full_metadata's catalog
    meta_log,         \* per database of extract_full_metadata: what the stub answered
    all_dependencies, \* run_lineage_tracking's all_dependencies
    query_lineage,    \* run_lineage_tracking's query_lineage
    lineage_graph,    \* LineageTracker.lineage_graph (networkx DiGraph)
    lookup,           \* the last lineage lookup: operation, arguments, value returned
    ncalls,           \* number of extraction calls made on the tracker
    dq_tables,        \* the tables handed to run_data_quality_validation
    all_results,      \* run_data_quality_validation's all_results
    last_check        \* the last data-quality check call: method, outcome, value returned

vars ==
    <<sf, pl_connection, pc, config, results, exc, steps, faults, idx, catalog, meta_log,
      all_dependencies, query_lineage, lineage_graph, lookup, ncalls,
      dq_tables, all_results, last_check>>

(***************************************************************************)
(* Bounds of the model.                                                    *)
(***************************************************************************)
\* extraction calls made on one LineageTracker
MaxExtractions ==
    2
\* largest max_depth handed to a lineage lookup
MaxDepth ==
    1
\* seconds that can elapse between pipeline_start and pipeline_end
MaxElapsed ==
    1
\* the longest result list a report is made of
MaxResults ==
    4
\* calls made on one SnowflakeConnection adapter
MaxCalls ==
    3

(***************************************************************************)
(* Python values.                                                          *)
(***************************************************************************)
\* Python's None
None ==
    [py |-> "None"]
\* the empty dict {}
EmptyDict ==
    [k \in {} |-> k]
\* dict.get(key, default)
Get(d, key, default) ==
    IF key \in DOMAIN d THEN d[key] ELSE default
\* dict.update(other)
Update(d, other) ==
    [k \in (DOMAIN d) \cup (DOMAIN other) |-> IF k \in DOMAIN other THEN other[k] ELSE d[k]]
\* the elements of a list, as a set
Range(s) ==
    {s[i] : i \in DOMAIN s}

(***************************************************************************)
(* Strings are sequences of one-character strings, so that str.upper,      *)
(* str.split, str.strip and the `in` test are computed as Python does.     *)
(***************************************************************************)
UpperMap ==
    ("a" :> "A") @@ ("b" :> "B") @@ ("c" :> "C") @@ ("d" :> "D") @@ ("e" :> "E") @@ ("f" :> "F") @@
    ("g" :> "G") @@ ("h" :> "H") @@ ("i" :> "I") @@ ("j" :> "J") @@ ("k" :> "K") @@ ("l" :> "L") @@
    ("m" :> "M") @@ ("n" :> "N") @@ ("o" :> "O") @@ ("p" :> "P") @@ ("q" :> "Q") @@ ("r" :> "R") @@
    ("s" :> "S") @@ ("t" :> "T") @@ ("u" :> "U") @@ ("v" :> "V") @@ ("w" :> "W") @@ ("x" :> "X") @@
    ("y" :> "Y") @@ ("z" :> "Z")
\* str.upper()
Upper(s) ==
    [i \in 1..Len(s) |-> IF s[i] \in DOMAIN UpperMap THEN UpperMap[s[i]] ELSE s[i]]
\* s[i:].startswith(kw)
MatchAt(s, kw, i) ==
    /\ i + Len(kw) - 1 <= Len(s)
    /\ \A k \in 1..Len(kw) : s[i + k - 1] = kw[k]
\* kw in s
Contains(s, kw) ==
    \E i \in 1..Len(s) : MatchAt(s, kw, i)
RECURSIVE SplitFrom(_, _, _, _)
\* the parts of s[start:] cut at the occurrences of kw found scanning from i
SplitFrom(s, kw, i, start) ==
    IF i + Len(kw) - 1 > Len(s) THEN <<SubSeq(s, start, Len(s))>>
    ELSE IF MatchAt(s, kw, i)
         THEN <<SubSeq(s, start, i - 1)>> \o SplitFrom(s, kw, i + Len(kw), i + Len(kw))
         ELSE SplitFrom(s, kw, i + 1, start)
\* s.split(kw)
SplitOn(s, kw) ==
    SplitFrom(s, kw, 1, 1)
\* the whitespace characters of the texts
Whitespace ==
    {" "}
RECURSIVE LStrip(_, _)
\* s.lstrip(chars)
LStrip(s, chars) ==
    IF s # <<>> /\ Head(s) \in chars THEN LStrip(Tail(s), chars) ELSE s
RECURSIVE RStrip(_, _)
\* s.rstrip(chars)
RStrip(s, chars) ==
    IF s # <<>> /\ s[Len(s)] \in chars THEN RStrip(SubSeq(s, 1, Len(s) - 1), chars) ELSE s
\* s.strip(chars)
Strip(s, chars) ==
    RStrip(LStrip(s, chars), chars)
RECURSIVE WordsFrom(_, _)
\* the whitespace-separated words of s, cur being the word in progress
WordsFrom(s, cur) ==
    IF s = <<>> THEN (IF cur = <<>> THEN <<>> ELSE <<cur>>)
    ELSE IF Head(s) \in Whitespace
         THEN (IF cur = <<>> THEN <<>> ELSE <<cur>>) \o WordsFrom(Tail(s), <<>>)
         ELSE WordsFrom(Tail(s), Append(cur, Head(s)))
\* s.strip().split()
Tokens(s) ==
    WordsFrom(Strip(s, Whitespace), <<>>)
\* f"{a}.{b}.{c}"
Dotted(a, b, c) ==
    a \o <<".">> \o b \o <<".">> \o c
\* the keywords the tracker looks for in a statement, spelled character by character
KW ==
    [FROM |-> <<"F","R","O","M">>,
     JOIN |-> <<"J","O","I","N">>,
     INNER_JOIN |-> <<"I","N","N","E","R"," ","J","O","I","N">>,
     LEFT_JOIN |-> <<"L","E","F","T"," ","J","O","I","N">>,
     RIGHT_JOIN |-> <<"R","I","G","H","T"," ","J","O","I","N">>,
     FULL_JOIN |-> <<"F","U","L","L"," ","J","O","I","N">>,
     INSERT_INTO |-> <<"I","N","S","E","R","T"," ","I","N","T","O">>,
     CREATE_TABLE |-> <<"C","R","E","A","T","E"," ","T","A","B","L","E">>,
     MERGE_INTO |-> <<"M","E","R","G","E"," ","I","N","T","O">>,
     INSERT |-> <<"I","N","S","E","R","T">>,
     MERGE |-> <<"M","E","R","G","E">>,
     UPDATE |-> <<"U","P","D","A","T","E">>]
\* the tokens after CREATE TABLE that are not a table name: "IF", "OR"
SkippedTokens ==
    {<<"I","F">>, <<"O","R">>}
\* "insert into D.S.B select * from D.S.C"
Q_InsertSelect ==
    <<"i","n","s","e","r","t"," ","i","n","t","o"," ","D",".","S",".","B"," ","s","e","l","e","c","t"," ","*"," ","f","r","o","m"," ","D",".","S",".","C">>
\* "INSERT INTO D.S.C SELECT * FROM D.S.A JOIN D.S.B"
Q_InsertJoin ==
    <<"I","N","S","E","R","T"," ","I","N","T","O"," ","D",".","S",".","C"," ","S","E","L","E","C","T"," ","*"," ","F","R","O","M"," ","D",".","S",".","A"," ","J","O","I","N"," ","D",".","S",".","B">>
\* "UPDATE D.S.A SET X=1"
Q_Update ==
    <<"U","P","D","A","T","E"," ","D",".","S",".","A"," ","S","E","T"," ","X","=","1">>

(***************************************************************************)
(* Connection adapter (SnowflakeConnection) over the warehouse driver.     *)
(* sf.connection is self.connection (NoConnection for None), sf.open the   *)
(* driver connections that are open, sf.next the next connection the       *)
(* driver hands out.                                                       *)
(***************************************************************************)
\* self.connection = None
NoConnection ==
    0
\* a freshly constructed adapter, no driver connection made yet
NewAdapter(s) ==
    [s EXCEPT !.connection = NoConnection]
\* SnowflakeConnection.connect; ok is whether the driver could connect
Connect(s, ok) ==
    IF ok
    THEN [sf |-> [s EXCEPT !.connection = s.next, !.open = @ \cup {s.next}, !.next = @ + 1],
          raised |-> FALSE]
    ELSE [sf |-> s, raised |-> TRUE]
\* a close that forgets the driver connection without closing it
Close_leaking(s) ==
    [s EXCEPT !.connection = NoConnection]
\* SnowflakeConnection.close
Close(s) ==
    IF s.connection # NoConnection
    THEN [s EXCEPT !.open = @ \ {s.connection}, !.connection = NoConnection]
    ELSE s
\* SnowflakeConnection.execute_query; ans is the stub's answer to the query
ExecuteQuery(s, connOk, ans) ==
    LET c == IF s.connection = NoConnection THEN Connect(s, connOk)
             ELSE [sf |-> s, raised |-> FALSE]
    IN  IF c.raised \/ ans.fail
        THEN [sf |-> c.sf, raised |-> TRUE, rows |-> <<>>]
        ELSE [sf |-> c.sf, raised |-> FALSE, rows |-> ans.rows]
\* SnowflakeConnection.execute_many; ok is whether the batch went through
ExecuteMany(s, connOk, ok) ==
    LET c == IF s.connection = NoConnection THEN Connect(s, connOk)
             ELSE [sf |-> s, raised |-> FALSE]
    IN  [sf |-> c.sf, raised |-> c.raised \/ ~ok]
\* SnowflakeConnection.create_table_if_not_exists
CreateTableIfNotExists(s, connOk, ok) ==
    LET q == ExecuteQuery(s, connOk, [fail |-> ~ok, rows |-> <<>>])
    IN  [sf |-> q.sf, raised |-> q.raised]
\* whether connect can be asked for at all: an open adapter does not reconnect
ConnectChoices(s) ==
    IF s.connection = NoConnection THEN BOOLEAN ELSE {TRUE}
\* a stub answer: the call fails
Fail ==
    [fail |-> TRUE, rows |-> <<>>]
\* a stub answer: the call returns rows
Rows(r) ==
    [fail |-> FALSE, rows |-> r]

(***************************************************************************)
(* Lineage tracker.  The graph is a networkx DiGraph: node, succ and pred  *)
(* keep insertion order, attr is the one attribute dict of each edge.      *)
(***************************************************************************)
\* nx.DiGraph()
EmptyGraph ==
    [node |-> <<>>, succ |-> EmptyDict, pred |-> EmptyDict, attr |-> EmptyDict]
\* DiGraph.add_edge's node creation
AddNode(g, n) ==
    IF n \in DOMAIN g.succ THEN g
    ELSE [g EXCEPT !.node = Append(@, n),
                   !.succ = (n :> <<>>) @@ @,
                   !.pred = (n :> <<>>) @@ @]
\* DiGraph.add_edge(u, v, **attr): an existing edge's attributes are updated
AddEdge(g, u, v, attr) ==
    LET g1 == AddNode(AddNode(g, u), v)
        data == Update(Get(g1.attr, <<u, v>>, EmptyDict), attr)
    IN  [g1 EXCEPT !.succ[u] = IF v \in Range(@) THEN @ ELSE Append(@, v),
                    !.pred[v] = IF u \in Range(@) THEN @ ELSE Append(@, u),
                    !.attr = (<<u, v>> :> data) @@ @]
\* the record extract_table_dependencies builds from one row
DependencyRecord(dep) ==
    [source_database |-> dep.REFERENCED_DATABASE,
     source_schema   |-> dep.REFERENCED_SCHEMA,
     source_object   |-> dep.REFERENCED_OBJECT_NAME,
     source_type     |-> dep.REFERENCED_OBJECT_DOMAIN,
     target_database |-> dep.DATABASE_NAME,
     target_schema   |-> dep.SCHEMA_NAME,
     target_object   |-> dep.TABLE_NAME,
     dependency_type |-> "DIRECT"]
\* a dependency row read the wrong way round: the dependent object taken as the source
DependencySource_swapped(dep) ==
    Dotted(dep.DATABASE_NAME, dep.SCHEMA_NAME, dep.TABLE_NAME)
\* the source node of a dependency row
DependencySource(dep) ==
    Dotted(dep.REFERENCED_DATABASE, dep.REFERENCED_SCHEMA, dep.REFERENCED_OBJECT_NAME)
\* the target node of a dependency row
DependencyTarget(dep) ==
    Dotted(dep.DATABASE_NAME, dep.SCHEMA_NAME, dep.TABLE_NAME)
RECURSIVE AddDependencies(_, _, _)
\* the loop of extract_table_dependencies over the rows
AddDependencies(g, recs, rows) ==
    IF rows = <<>> THEN [graph |-> g, value |-> recs]
    ELSE LET dep == Head(rows)
         IN  AddDependencies(
                 AddEdge(g, DependencySource(dep), DependencyTarget(dep), [type |-> "DIRECT"]),
                 Append(recs, DependencyRecord(dep)),
                 Tail(rows))
\* an extraction that keeps a failed query to itself and reports no dependency
extract_table_dependencies_swallowing(s, g, connOk, ans) ==
    LET q == ExecuteQuery(s, connOk, ans)
    IN  IF q.raised
        THEN [sf |-> q.sf, raised |-> FALSE, graph |-> g, value |-> <<>>]
        ELSE LET r == AddDependencies(g, <<>>, q.rows)
             IN  [sf |-> q.sf, raised |-> FALSE, graph |-> r.graph, value |-> r.value]
\* LineageTracker.extract_table_dependencies
extract_table_dependencies(s, g, connOk, ans) ==
    LET q == ExecuteQuery(s, connOk, ans)
    IN  IF q.raised
        THEN [sf |-> q.sf, raised |-> TRUE, graph |-> g, value |-> <<>>]
        ELSE LET r == AddDependencies(g, <<>>, q.rows)
             IN  [sf |-> q.sf, raised |-> FALSE, graph |-> r.graph, value |-> r.value]
\* the characters stripped from a table token
Punctuation ==
    {"(", ")", ",", ";"}
\* the first token after each occurrence of keyword, stripped
NamesAfter(query_text, keyword) ==
    IF Contains(query_text, keyword)
    THEN LET parts == SplitOn(query_text, keyword)
         IN  {Strip(Tokens(parts[i])[1], Punctuation) :
                 i \in {j \in 2..Len(parts) : Tokens(parts[j]) # <<>>}}
    ELSE {}
\* the keywords that introduce a source table
SourceKeywords ==
    {KW.FROM, KW.JOIN, KW.INNER_JOIN, KW.LEFT_JOIN, KW.RIGHT_JOIN, KW.FULL_JOIN}
\* LineageTracker._extract_source_tables
extract_source_tables(query_text) ==
    UNION {{n \in NamesAfter(query_text, kw) : "." \in Range(n)} : kw \in SourceKeywords}
\* the first raw token after each occurrence of CREATE TABLE
CreateTableTokens(query_text) ==
    IF Contains(query_text, KW.CREATE_TABLE)
    THEN LET parts == SplitOn(query_text, KW.CREATE_TABLE)
         IN  {Tokens(parts[i])[1] :
                 i \in {j \in 2..Len(parts) : Tokens(parts[j]) # <<>>}}
    ELSE {}
\* LineageTracker._extract_target_tables
extract_target_tables(query_text) ==
    NamesAfter(query_text, KW.INSERT_INTO)
    \cup {Strip(t, Punctuation) : t \in {x \in CreateTableTokens(query_text) : x \notin SkippedTokens}}
    \cup NamesAfter(query_text, KW.MERGE_INTO)
\* LineageTracker._determine_query_type
determine_query_type(query_text) ==
    IF Contains(query_text, KW.INSERT) THEN "INSERT"
    ELSE IF Contains(query_text, KW.CREATE_TABLE) THEN "CREATE_TABLE_AS_SELECT"
    ELSE IF Contains(query_text, KW.MERGE) THEN "MERGE"
    ELSE IF Contains(query_text, KW.UPDATE) THEN "UPDATE"
    ELSE "UNKNOWN"
\* the statements of the query history
QueryTexts ==
    {Q_InsertSelect, Q_InsertJoin, Q_Update}
\* query_text.upper() of each statement, computed once
UpperOf ==
    [t \in QueryTexts |-> Upper(t)]
\* _extract_source_tables of each upper-cased statement, computed once
SourceTablesOf ==
    [t \in Range(UpperOf) |-> extract_source_tables(t)]
\* _extract_target_tables of each upper-cased statement, computed once
TargetTablesOf ==
    [t \in Range(UpperOf) |-> extract_target_tables(t)]
\* _determine_query_type of each upper-cased statement, computed once
QueryTypeOf ==
    [t \in Range(UpperOf) |-> determine_query_type(t)]
\* str(value) of a START_TIME
PyStr(v) ==
    IF v = None THEN "None" ELSE v.iso
\* the elements of set S in the iteration order that order gives them
SetToSeq(S, order) ==
    SelectSeq(order, LAMBDA x : x \in S)
\* the (target, source) pairs of one query, in the order the two loops visit them
RECURSIVE PairsOf(_, _)
\* every target paired with the first source only
PairsOf_first_source(targets, sources) ==
    IF targets = <<>> \/ sources = <<>> THEN <<>>
    ELSE <<[target |-> Head(targets), source |-> Head(sources)]>>
         \o PairsOf(Tail(targets), sources)
PairsOf(targets, sources) ==
    IF targets = <<>> THEN <<>>
    ELSE [i \in 1..Len(sources) |-> [target |-> Head(targets), source |-> sources[i]]]
         \o PairsOf(Tail(targets), sources)
\* the lineage record of one (source, target) pair of a query
QueryLineageRecord(query_record, query_text, source, target) ==
    [query_id       |-> query_record.QUERY_ID,
     source_table   |-> source,
     target_table   |-> target,
     query_type     |-> QueryTypeOf[query_text],
     user_name      |-> query_record.USER_NAME,
     execution_time |-> PyStr(query_record.START_TIME)]
RECURSIVE AddPairs(_, _, _, _, _)
\* the inner loops of extract_query_history_lineage for one query
AddPairs(g, recs, query_record, query_text, pairs) ==
    IF pairs = <<>> THEN [graph |-> g, value |-> recs]
    ELSE LET p == Head(pairs)
         IN  AddPairs(
                 AddEdge(g, p.source, p.target,
                         [type |-> "QUERY_BASED", query_id |-> query_record.QUERY_ID]),
                 Append(recs, QueryLineageRecord(query_record, query_text, p.source, p.target)),
                 query_record, query_text, Tail(pairs))
RECURSIVE AddQueryLineage(_, _, _, _)
\* the loop of extract_query_history_lineage over the query records; a QUERY_TEXT
\* of None has no upper(), and the edges added before it stay in the graph
AddQueryLineage(g, recs, rows, order) ==
    IF rows = <<>> THEN [graph |-> g, value |-> recs, raised |-> FALSE]
    ELSE IF Head(rows).QUERY_TEXT = None THEN [graph |-> g, value |-> <<>>, raised |-> TRUE]
    ELSE LET query_record == Head(rows)
             query_text == UpperOf[query_record.QUERY_TEXT]
             source_tables == SourceTablesOf[query_text]
             target_tables == TargetTablesOf[query_text]
             r == AddPairs(g, recs, query_record, query_text,
                           PairsOf(SetToSeq(target_tables, order), SetToSeq(source_tables, order)))
         IN  AddQueryLineage(r.graph, r.value, Tail(rows), order)
\* LineageTracker.extract_query_history_lineage
extract_query_history_lineage(s, g, connOk, ans, order) ==
    LET q == ExecuteQuery(s, connOk, ans)
    IN  IF q.raised
        THEN [sf |-> q.sf, raised |-> TRUE, graph |-> g, value |-> <<>>]
        ELSE LET r == AddQueryLineage(g, <<>>, q.rows, order)
             IN  [sf |-> q.sf, raised |-> r.raised, graph |-> r.graph, value |-> r.value]
\* default of max_depth
DefaultMaxDepth ==
    5
RECURSIVE AncestorsWithin(_, _, _)
\* the nodes from which table_name is reached in 1..depth edges
AncestorsWithin(g, table_name, depth) ==
    IF depth = 0 THEN {}
    ELSE Range(g.pred[table_name])
         \cup UNION {AncestorsWithin(g, p, depth - 1) : p \in Range(g.pred[table_name])}
\* get_upstream_lineage had it honoured max_depth
get_upstream_lineage_traversing(g, table_name, max_depth) ==
    IF table_name \notin DOMAIN g.succ THEN EmptyDict
    ELSE [table |-> table_name,
          ancestors |-> [i \in 1..Len(SetToSeq(AncestorsWithin(g, table_name, max_depth), g.node)) |->
                            [table |-> SetToSeq(AncestorsWithin(g, table_name, max_depth), g.node)[i],
                             relationship |-> "DIRECT_UPSTREAM"]]]
\* get_upstream_lineage without the membership test: the lookup of networkx fails and is caught
get_upstream_lineage_unchecked(g, table_name, max_depth) ==
    [table |-> table_name,
     ancestors |-> IF table_name \notin DOMAIN g.succ THEN <<>>
                   ELSE [i \in 1..Len(g.pred[table_name]) |->
                            [table |-> g.pred[table_name][i], relationship |-> "DIRECT_UPSTREAM"]]]
\* LineageTracker.get_upstream_lineage
get_upstream_lineage(g, table_name, max_depth) ==
    IF table_name \notin DOMAIN g.succ THEN EmptyDict
    ELSE [table |-> table_name,
          ancestors |-> [i \in 1..Len(g.pred[table_name]) |->
                            [table |-> g.pred[table_name][i], relationship |-> "DIRECT_UPSTREAM"]]]
\* LineageTracker.get_downstream_lineage
get_downstream_lineage(g, table_name, max_depth) ==
    IF table_name \notin DOMAIN g.succ THEN EmptyDict
    ELSE [table |-> table_name,
          descendants |-> [i \in 1..Len(g.succ[table_name]) |->
                              [table |-> g.succ[table_name][i], relationship |-> "DIRECT_DOWNSTREAM"]]]
\* LineageTracker.get_full_lineage
get_full_lineage(g, table_name) ==
    [table      |-> table_name,
     upstream   |-> get_upstream_lineage(g, table_name, DefaultMaxDepth),
     downstream |-> get_downstream_lineage(g, table_name, DefaultMaxDepth)]

(***************************************************************************)
(* What the warehouse stub can answer to the lineage queries.              *)
(***************************************************************************)
\* the objects of the dependency rows, all in database D, schema S
ObjA ==
    <<"A">>
ObjB ==
    <<"B">>
ObjC ==
    <<"C">>
\* a row of INFORMATION_SCHEMA.OBJECT_DEPENDENCIES: object b references object a
DepRow(a, b) ==
    [REFERENCED_DATABASE      |-> <<"D">>,
     REFERENCED_SCHEMA        |-> <<"S">>,
     REFERENCED_OBJECT_NAME   |-> a,
     REFERENCED_OBJECT_DOMAIN |-> "TABLE",
     DATABASE_NAME            |-> <<"D">>,
     SCHEMA_NAME              |-> <<"S">>,
     TABLE_NAME               |-> b]
\* the answers to the OBJECT_DEPENDENCIES query
DepAnswers ==
    {Fail, Rows(<<>>),
     Rows(<<DepRow(ObjA, ObjB)>>), Rows(<<DepRow(ObjC, ObjB)>>),
     Rows(<<DepRow(ObjA, ObjB), DepRow(ObjB, ObjC)>>)}
\* a START_TIME the driver returns as a datetime
Timestamp ==
    [iso |-> "2024-01-01 00:00:00"]
\* datetime.utcnow().isoformat()
UtcNowIso ==
    "2024-01-02T00:00:00"
\* the strings datetime.fromisoformat parses
IsoStrings ==
    {Timestamp.iso, UtcNowIso}
\* a row of ACCOUNT_USAGE.QUERY_HISTORY
HistoryRow(id, text, start) ==
    [QUERY_ID |-> id, QUERY_TEXT |-> text, USER_NAME |-> "u", START_TIME |-> start]
\* the answers to the QUERY_HISTORY query
HistoryAnswers ==
    {Fail, Rows(<<>>)}
    \cup {Rows(<<HistoryRow("q1", t, Timestamp)>>) : t \in QueryTexts}
    \cup {Rows(<<HistoryRow("q1", Q_InsertSelect, None)>>)}
    \cup {Rows(<<HistoryRow("q1", Q_InsertSelect, Timestamp), HistoryRow("q2", None, Timestamp)>>)}
\* every name the query texts can yield
NameUniverse ==
    UNION {SourceTablesOf[t] \cup TargetTablesOf[t] : t \in Range(UpperOf)}
\* the iteration orders a set of names can have (one per hash seed)
HashOrders ==
    {f \in [1..Cardinality(NameUniverse) -> NameUniverse] :
        \A i, j \in 1..Cardinality(NameUniverse) : f[i] = f[j] => i = j}
\* the nodes D.S.A, D.S.B, D.S.C and a table no extraction mentions
NodeA ==
    Dotted(<<"D">>, <<"S">>, ObjA)
NodeB ==
    Dotted(<<"D">>, <<"S">>, ObjB)
NodeC ==
    Dotted(<<"D">>, <<"S">>, ObjC)
UnknownTable ==
    <<"U", ".", "T">>
\* the tables a lookup is made for
LookupTables ==
    {NodeA, NodeB, NodeC, UnknownTable}
\* the max_depth values a lookup is made with
Depths ==
    (0..MaxDepth) \cup {DefaultMaxDepth}

(***************************************************************************)
(* A caller driving one LineageTracker: extractions, then lookups.         *)
(***************************************************************************)
\* the adapter before any connect
InitialAdapter ==
    [connection |-> NoConnection, open |-> {}, next |-> 1]
\* no call made yet
NoCall ==
    [op |-> "none"]
\* the variables of the other components, at rest
RestPipeline ==
    /\ config = [tracked_databases |-> <<>>, export_json |-> FALSE]
    /\ results = None
    /\ exc = "none"
    /\ steps = <<>>
    /\ faults = {}
    /\ idx = 0
RestMetadata ==
    /\ catalog = None
    /\ meta_log = <<>>
RestLineage ==
    /\ all_dependencies = <<>>
    /\ query_lineage = <<>>
    /\ lineage_graph = EmptyGraph
    /\ lookup = NoCall
    /\ ncalls = 0
RestQuality ==
    /\ dq_tables = <<>>
    /\ all_results = <<>>
    /\ last_check = NoCall
InitLineage ==
    /\ pc = "tracker"
    /\ sf = InitialAdapter
    /\ pl_connection = "None"
    /\ RestPipeline /\ RestMetadata /\ RestLineage /\ RestQuality
\* the caller calls extract_table_dependencies and keeps the records
TrackerExtractDependencies ==
    /\ pc = "tracker"
    /\ ncalls < MaxExtractions
    /\ \E connOk \in ConnectChoices(sf), ans \in DepAnswers :
         LET r == extract_table_dependencies(sf, lineage_graph, connOk, ans)
         IN  /\ sf' = r.sf
             /\ lineage_graph' = r.graph
             /\ all_dependencies' = all_dependencies \o r.value
             /\ lookup' = [op |-> "extract_table_dependencies", raised |-> r.raised,
                           value |-> r.value, answer |-> ans, before |-> lineage_graph]
    /\ ncalls' = ncalls + 1
    /\ UNCHANGED <<pl_connection, pc, config, results, exc, steps, faults, idx, catalog, meta_log,
                   query_lineage, dq_tables, all_results, last_check>>
\* the caller calls extract_query_history_lineage and keeps the records
TrackerExtractQueryHistory ==
    /\ pc = "tracker"
    /\ ncalls < MaxExtractions
    /\ \E connOk \in ConnectChoices(sf), ans \in HistoryAnswers, order \in HashOrders :
         LET r == extract_query_history_lineage(sf, lineage_graph, connOk, ans, order)
         IN  /\ sf' = r.sf
             /\ lineage_graph' = r.graph
             /\ query_lineage' = query_lineage \o r.value
             /\ lookup' = [op |-> "extract_query_history_lineage", raised |-> r.raised,
                           value |-> r.value, answer |-> ans, before |-> lineage_graph]
    /\ ncalls' = ncalls + 1
    /\ UNCHANGED <<pl_connection, pc, config, results, exc, steps, faults, idx, catalog, meta_log,
                   all_dependencies, dq_tables, all_results, last_check>>
\* the caller calls get_upstream_lineage
TrackerGetUpstream ==
    /\ pc = "tracker"
    /\ \E t \in LookupTables, d \in Depths :
         lookup' = [op |-> "get_upstream_lineage", table |-> t, max_depth |-> d,
                    raised |-> FALSE, value |-> get_upstream_lineage(lineage_graph, t, d)]
    /\ UNCHANGED <<sf, pl_connection, pc, config, results, exc, steps, faults, idx, catalog, meta_log,
                   all_dependencies, query_lineage, lineage_graph, ncalls,
                   dq_tables, all_results, last_check>>
\* the caller calls get_downstream_lineage
TrackerGetDownstream ==
    /\ pc = "tracker"
    /\ \E t \in LookupTables, d \in Depths :
         lookup' = [op |-> "get_downstream_lineage", table |-> t, max_depth |-> d,
                    raised |-> FALSE, value |-> get_downstream_lineage(lineage_graph, t, d)]
    /\ UNCHANGED <<sf, pl_connection, pc, config, results, exc, steps, faults, idx, catalog, meta_log,
                   all_dependencies, query_lineage, lineage_graph, ncalls,
                   dq_tables, all_results, last_check>>
\* the caller calls get_full_lineage
TrackerGetFullLineage ==
    /\ pc = "tracker"
    /\ \E t \in LookupTables :
         lookup' = [op |-> "get_full_lineage", table |-> t, max_depth |-> DefaultMaxDepth,
                    raised |-> FALSE, value |-> get_full_lineage(lineage_graph, t)]
    /\ UNCHANGED <<sf, pl_connection, pc, config, results, exc, steps, faults, idx, catalog, meta_log,
                   all_dependencies, query_lineage, lineage_graph, ncalls,
                   dq_tables, all_results, last_check>>
NextLineage ==
    \/ TrackerExtractDependencies
    \/ TrackerExtractQueryHistory
    \/ TrackerGetUpstream
    \/ TrackerGetDownstream
    \/ TrackerGetFullLineage
SpecLineage ==
    InitLineage /\ [][NextLineage]_vars

(***************************************************************************)
(* Metadata extractor.  Its callers connect the adapter first, so a query  *)
(* here never has to connect: ExecuteQuery is asked with the adapter as it *)
(* is and leaves it as it is.                                              *)
(***************************************************************************)
\* catalog = {'databases': [], 'schemas': [], 'tables': [], 'columns': []}
EmptyCatalog ==
    [databases |-> <<>>, schemas |-> <<>>, tables |-> <<>>, columns |-> <<>>]
\* the value of a call: what it returns, or that it raised
Returned(v) ==
    [raised |-> FALSE, value |-> v]
Raised ==
    [raised |-> TRUE, value |-> None]
\* MetadataExtractor.extract_database_metadata: no row falls off the end of the method
extract_database_metadata(s, database_name, ans) ==
    LET q == ExecuteQuery(s, TRUE, ans)
    IN  IF q.raised THEN Raised
        ELSE IF q.rows # <<>>
             THEN Returned([database_name |-> q.rows[1].name, owner |-> q.rows[1].owner])
             ELSE Returned(None)
\* MetadataExtractor.extract_schema_metadata
extract_schema_metadata(s, database_name, ans) ==
    LET q == ExecuteQuery(s, TRUE, ans)
    IN  IF q.raised THEN Raised
        ELSE Returned([i \in 1..Len(q.rows) |->
                          [database_name |-> database_name, schema_name |-> q.rows[i].name]])
\* MetadataExtractor.extract_table_metadata
extract_table_metadata(s, database_name, ans) ==
    LET q == ExecuteQuery(s, TRUE, ans)
    IN  IF q.raised THEN Raised
        ELSE Returned([i \in 1..Len(q.rows) |->
                          [database_name |-> q.rows[i].database_name,
                           schema_name   |-> q.rows[i].schema_name,
                           table_name    |-> q.rows[i].name]])
\* MetadataExtractor.extract_column_metadata
extract_column_metadata(s, database_name, schema_name, table_name, ans) ==
    LET q == ExecuteQuery(s, TRUE, ans)
    IN  IF q.raised THEN Raised
        ELSE Returned([i \in 1..Len(q.rows) |->
                          [database_name |-> database_name,
                           schema_name   |-> schema_name,
                           table_name    |-> table_name,
                           column_name   |-> q.rows[i].name]])
RECURSIVE ExtractColumns(_, _, _, _, _)
\* a loop whose failure throws away the catalog gathered so far
ExtractColumns_discarding(s, cat, db, tables, describe) ==
    IF tables = <<>> THEN [catalog |-> cat, failed |-> FALSE]
    ELSE LET table == Head(tables)
             c == extract_column_metadata(s, db, table.schema_name, table.table_name,
                                          describe[table.table_name])
         IN  IF c.raised THEN [catalog |-> EmptyCatalog, failed |-> TRUE]
             ELSE ExtractColumns(s, [cat EXCEPT !.columns = @ \o c.value], db,
                                 Tail(tables), describe)
\* the loop of extract_full_metadata over the tables of one database: the first
\* failure ends the pass with the catalog as it is
ExtractColumns(s, cat, db, tables, describe) ==
    IF tables = <<>> THEN [catalog |-> cat, failed |-> FALSE]
    ELSE LET table == Head(tables)
             c == extract_column_metadata(s, db, table.schema_name, table.table_name,
                                          describe[table.table_name])
         IN  IF c.raised THEN [catalog |-> cat, failed |-> TRUE]
             ELSE ExtractColumns(s, [cat EXCEPT !.columns = @ \o c.value], db,
                                 Tail(tables), describe)
\* one pass of the loop of extract_full_metadata (lines 237-262): the try block stops
\* at the first failure, which is caught; the catalog keeps what was added before
ExtractOneDatabase(s, cat, db, a) ==
    LET d == extract_database_metadata(s, db, a.show)
    IN  IF d.raised THEN [catalog |-> cat, failed |-> TRUE]
        ELSE LET cat1 == [cat EXCEPT !.databases = Append(@, d.value)]
                 sc == extract_schema_metadata(s, db, a.schemas)
             IN  IF sc.raised THEN [catalog |-> cat1, failed |-> TRUE]
                 ELSE LET cat2 == [cat1 EXCEPT !.schemas = @ \o sc.value]
                          t == extract_table_metadata(s, db, a.tables)
                      IN  IF t.raised THEN [catalog |-> cat2, failed |-> TRUE]
                          ELSE ExtractColumns(s, [cat2 EXCEPT !.tables = @ \o t.value],
                                              db, t.value, a.describe)
\* json.dumps / subscripting of one catalog record: None cannot be subscripted
Subscriptable(rec) ==
    rec # None
\* the rows save_metadata_to_snowflake prepares for one section of the catalog
SectionRows(kind, recs) ==
    [i \in 1..Len(recs) |->
        [metadata_type |-> kind,
         database_name |-> recs[i].database_name,
         schema_name   |-> IF kind = "DATABASE" THEN None.py ELSE recs[i].schema_name,
         object_name   |-> IF kind = "DATABASE" THEN recs[i].database_name
                           ELSE IF kind = "SCHEMA" THEN recs[i].schema_name
                           ELSE IF kind = "TABLE" THEN recs[i].table_name
                           ELSE <<recs[i].table_name, recs[i].column_name>>]]
\* one execute_many call per section of the catalog
save_metadata_to_snowflake_per_section(s, cat, ddlOk, insertOk) ==
    IF CreateTableIfNotExists(s, TRUE, ddlOk).raised
    THEN [error |-> "metadata_ddl", batches |-> <<>>]
    ELSE IF \E i \in DOMAIN cat.databases : ~Subscriptable(cat.databases[i])
    THEN [error |-> "metadata_null_record", batches |-> <<>>]
    ELSE [error |-> IF ExecuteMany(s, TRUE, insertOk).raised THEN "metadata_insert" ELSE "none",
          batches |-> <<SectionRows("DATABASE", cat.databases), SectionRows("SCHEMA", cat.schemas),
                        SectionRows("TABLE", cat.tables), SectionRows("COLUMN", cat.columns)>>]
\* MetadataExtractor.save_metadata_to_snowflake: the error it raises ("none" when it
\* returns) and the batches handed to execute_many
save_metadata_to_snowflake(s, cat, ddlOk, insertOk) ==
    IF CreateTableIfNotExists(s, TRUE, ddlOk).raised
    THEN [error |-> "metadata_ddl", batches |-> <<>>]
    ELSE IF \E i \in DOMAIN cat.databases : ~Subscriptable(cat.databases[i])
    THEN [error |-> "metadata_null_record", batches |-> <<>>]
    ELSE LET insert_data == SectionRows("DATABASE", cat.databases)
                            \o SectionRows("SCHEMA", cat.schemas)
                            \o SectionRows("TABLE", cat.tables)
                            \o SectionRows("COLUMN", cat.columns)
         IN  IF ExecuteMany(s, TRUE, insertOk).raised
             THEN [error |-> "metadata_insert", batches |-> <<insert_data>>]
             ELSE [error |-> "none", batches |-> <<insert_data>>]

(***************************************************************************)
(* What the warehouse stub can answer to the introspection queries of one  *)
(* database.  A query that is not reached has no answer: it is written     *)
(* Fail, so that two stubs differ only where the extractor can see it.     *)
(***************************************************************************)
\* the tables a database can hold
TableNames ==
    {"T1", "T2"}
\* a row of SHOW TABLES
TableRow(db, t) ==
    [database_name |-> db, schema_name |-> "S1", name |-> t]
\* the answers of the stub to SHOW DATABASES LIKE db, SHOW SCHEMAS IN DATABASE db,
\* SHOW TABLES IN DATABASE db and DESCRIBE TABLE
IntrospectionAnswers(db) ==
    [show |-> {Fail, Rows(<<>>), Rows(<<[name |-> db, owner |-> "SYSADMIN"]>>)},
     schemas |-> {Fail, Rows(<<>>), Rows(<<[name |-> "S1"]>>)},
     tables |-> {Fail, Rows(<<>>), Rows(<<TableRow(db, "T1")>>),
                 Rows(<<TableRow(db, "T1"), TableRow(db, "T2")>>)},
     describe |-> {Fail, Rows(<<>>), Rows(<<[name |-> "c1"]>>)}]
\* the tables whose DESCRIBE is reached under answer a
ReachedTables(a) ==
    IF a.show.fail \/ a.schemas.fail \/ a.tables.fail THEN {}
    ELSE {a.tables.rows[i].name : i \in
             {j \in DOMAIN a.tables.rows :
                 \A k \in 1..(j - 1) : ~a.describe[a.tables.rows[k].name].fail}}
\* an answer that says nothing about a query that is never made
Canonical(a) ==
    /\ a.show.fail => a.schemas = Fail
    /\ a.schemas.fail => a.tables = Fail
    /\ \A t \in TableNames \ ReachedTables(a) : a.describe[t] = Fail
\* the answers of the stub for database db
DbAnswers(db) ==
    {a \in [show : IntrospectionAnswers(db).show, schemas : IntrospectionAnswers(db).schemas,
            tables : IntrospectionAnswers(db).tables,
            describe : [TableNames -> IntrospectionAnswers(db).describe]] : Canonical(a)}
\* whether no query made for the database failed under answer a
NoQueryFailed(a) ==
    /\ ~a.show.fail /\ ~a.schemas.fail /\ ~a.tables.fail
    /\ \A t \in ReachedTables(a) : ~a.describe[t].fail
\* the database lists extract_full_metadata is called with
DatabaseLists ==
    {<<>>, <<"D1">>, <<"D1", "D2">>}

(***************************************************************************)
(* A caller of extract_full_metadata: one pass of its loop per step.       *)
(***************************************************************************)
\* MetadataExtractor.extract_table_statistics: the statistics, {} when the query
\* failed, and None when the end of the method is reached without a return
extract_table_statistics(s, database_name, schema_name, table_name, ans) ==
    LET q == ExecuteQuery(s, TRUE, ans)
    IN  IF q.raised THEN Returned(EmptyDict)
        ELSE IF q.rows # <<>>
        THEN Returned([database_name |-> database_name,
                       schema_name |-> schema_name,
                       table_name |-> table_name,
                       row_count |-> Get(q.rows[1], "ROW_COUNT", None),
                       distinct_rows |-> Get(q.rows[1], "DISTINCT_ROWS", None),
                       extracted_at |-> UtcNowIso])
        ELSE Returned(None)
\* the answers of the stub to the statistics query
StatisticsAnswers ==
    {Fail, Rows(<<>>), Rows(<<[ROW_COUNT |-> 0, DISTINCT_ROWS |-> 0]>>),
     Rows(<<[ROW_COUNT |-> 2, DISTINCT_ROWS |-> 1]>>)}
InitMetadata ==
    /\ pc \in {"extract_full_metadata", "extract_table_statistics"}
    /\ sf = Connect(InitialAdapter, TRUE).sf
    /\ pl_connection = "None"
    /\ config \in [tracked_databases : DatabaseLists, export_json : {FALSE}]
    /\ pc = "extract_table_statistics" => config.tracked_databases = <<>>
    /\ results = None
    /\ exc = "none"
    /\ steps = <<>>
    /\ faults = {}
    /\ idx = 1
    /\ catalog = EmptyCatalog
    /\ meta_log = <<>>
    /\ RestLineage /\ RestQuality
\* one pass of the loop of extract_full_metadata (lines 236-262)
MetaExtractDatabase ==
    /\ pc = "extract_full_metadata"
    /\ idx <= Len(config.tracked_databases)
    /\ \E a \in DbAnswers(config.tracked_databases[idx]) :
         LET r == ExtractOneDatabase(sf, catalog, config.tracked_databases[idx], a)
         IN  /\ catalog' = r.catalog
             /\ meta_log' = Append(meta_log, [db |-> config.tracked_databases[idx],
                                              answer |-> a, failed |-> r.failed])
             /\ faults' = faults \cup (IF r.failed THEN {"metadata_query"} ELSE {})
    /\ idx' = idx + 1
    /\ UNCHANGED <<sf, pl_connection, pc, config, results, exc, steps,
                   all_dependencies, query_lineage, lineage_graph, lookup, ncalls,
                   dq_tables, all_results, last_check>>
\* extract_full_metadata returns the catalog (line 264)
MetaReturn ==
    /\ pc = "extract_full_metadata"
    /\ idx > Len(config.tracked_databases)
    /\ pc' = "returned"
    /\ results' = catalog
    /\ UNCHANGED <<sf, pl_connection, config, exc, steps, faults, idx, catalog, meta_log,
                   all_dependencies, query_lineage, lineage_graph, lookup, ncalls,
                   dq_tables, all_results, last_check>>
\* a caller asks for the statistics of a table
ExtractorTableStatistics ==
    /\ pc = "extract_table_statistics"
    /\ last_check = NoCall
    /\ \E t \in TableNames, ans \in StatisticsAnswers :
         LET r == extract_table_statistics(sf, "D1", "S1", t, ans)
         IN  last_check' = [op |-> "extract_table_statistics",
                            args |-> [table_name |-> t, answer |-> ans],
                            raised |-> r.raised, value |-> r.value]
    /\ UNCHANGED <<sf, pl_connection, pc, config, results, exc, steps, faults, idx,
                   catalog, meta_log, all_dependencies, query_lineage, lineage_graph,
                   lookup, ncalls, dq_tables, all_results>>
\* the caller saves the catalog it was returned
ExtractorSaveMetadata ==
    /\ pc = "returned"
    /\ last_check = NoCall
    /\ \E ddlOk \in BOOLEAN, insertOk \in BOOLEAN :
         LET r == save_metadata_to_snowflake(sf, results, ddlOk, insertOk)
         IN  last_check' = [op |-> "save_metadata_to_snowflake",
                            args |-> [catalog |-> results, ddlOk |-> ddlOk],
                            error |-> r.error, batches |-> r.batches]
    /\ UNCHANGED <<sf, pl_connection, pc, config, results, exc, steps, faults, idx,
                   catalog, meta_log, all_dependencies, query_lineage, lineage_graph,
                   lookup, ncalls, dq_tables, all_results>>
NextMetadata ==
    \/ MetaExtractDatabase
    \/ MetaReturn
    \/ ExtractorTableStatistics
    \/ ExtractorSaveMetadata
SpecMetadata ==
    InitMetadata /\ [][NextMetadata]_vars

(***************************************************************************)
(* Data-quality validator.  The body of each check method runs inside      *)
(* try/except: the body either yields its result or stops at an exception, *)
(* and the handler of the method decides what the caller gets.             *)
(***************************************************************************)
\* the body of a try block came to its end with value v
Done(v) ==
    [exc |-> "none", value |-> v]
\* the body of a try block stopped at an exception
Threw(e) ==
    [exc |-> e, value |-> None]
\* the error of one query whose first row is read: the query fails, or result[0] has no row
FirstRowError(q) ==
    IF q.raised THEN "query failed"
    ELSE IF q.rows = <<>> THEN "list index out of range"
    ELSE "none"
\* f"{database}.{schema}.{table}"
FullTableName(table_info) ==
    <<table_info.database, table_info.schema, table_info.table>>
\* the handler of a check method that logs and raises again, as the extractors do
CheckHandler_reraising(check_type, full_table_name, body) ==
    IF body.exc = "none" THEN Returned(body.value) ELSE Raised
\* except Exception of a check method: the error becomes an ERROR result
CheckHandler(check_type, full_table_name, body) ==
    IF body.exc = "none" THEN Returned(body.value)
    ELSE Returned([check_type |-> check_type, table |-> full_table_name,
                   status |-> "ERROR", error |-> body.exc])
\* a ratio that is 1 when there is nothing to divide by
Ratio_full_when_empty(n, d) ==
    IF d > 0 THEN [num |-> n, den |-> d] ELSE [num |-> 1, den |-> 1]
\* a ratio n/d, 0 when there is nothing to divide by
Ratio(n, d) ==
    IF d > 0 THEN [num |-> n, den |-> d] ELSE [num |-> 0, den |-> 1]
\* what the warehouse answers to the null query of check_completeness: the number
\* of rows whose column is NULL, and that number * 100.0 / total_rows, total_rows
\* being the number check_completeness wrote into the query text; dividing by
\* zero fails the query
NullQueryAnswer(ans, total_rows) ==
    IF ans.fail \/ ans.rows = <<>> THEN ans
    ELSE IF total_rows = 0 THEN Fail
    ELSE Rows(<<[NULL_COUNT |-> ans.rows[1].NULL_COUNT,
                 NULL_PERCENTAGE |-> (ans.rows[1].NULL_COUNT * 100) \div total_rows]>>)
RECURSIVE CompletenessColumns(_, _, _, _, _)
\* the loop of check_completeness over the columns, every column at the boundary
\* counting as failed
CompletenessColumns_strict(s, res, columns, threshold, nulls) ==
    IF columns = <<>> THEN Done(res)
    ELSE LET q == ExecuteQuery(s, TRUE, NullQueryAnswer(nulls[Head(columns)], res.total_rows))
         IN  IF FirstRowError(q) # "none" THEN Threw(FirstRowError(q))
             ELSE LET null_percentage == q.rows[1].NULL_PERCENTAGE
                      completeness == 100 - null_percentage
                      status == IF completeness > threshold THEN "PASSED" ELSE "FAILED"
                      col == [column_name |-> Head(columns),
                              null_count |-> q.rows[1].NULL_COUNT,
                              null_percentage |-> null_percentage,
                              completeness |-> completeness,
                              threshold |-> threshold,
                              status |-> status]
                  IN  CompletenessColumns(s,
                          [res EXCEPT !.columns = Append(@, col),
                                      !.overall_status = IF status = "FAILED" THEN "FAILED" ELSE @],
                          Tail(columns), threshold, nulls)
\* the loop of check_completeness over the columns; percentages are whole numbers
CompletenessColumns(s, res, columns, threshold, nulls) ==
    IF columns = <<>> THEN Done(res)
    ELSE LET q == ExecuteQuery(s, TRUE, NullQueryAnswer(nulls[Head(columns)], res.total_rows))
         IN  IF FirstRowError(q) # "none" THEN Threw(FirstRowError(q))
             ELSE LET null_percentage == q.rows[1].NULL_PERCENTAGE
                      completeness == 100 - null_percentage
                      status == IF completeness >= threshold THEN "PASSED" ELSE "FAILED"
                      col == [column_name |-> Head(columns),
                              null_count |-> q.rows[1].NULL_COUNT,
                              null_percentage |-> null_percentage,
                              completeness |-> completeness,
                              threshold |-> threshold,
                              status |-> status]
                  IN  CompletenessColumns(s,
                          [res EXCEPT !.columns = Append(@, col),
                                      !.overall_status = IF status = "FAILED" THEN "FAILED" ELSE @],
                          Tail(columns), threshold, nulls)
\* the try block of check_completeness
CompletenessBody(s, full_table_name, columns, threshold, a) ==
    LET d == ExecuteQuery(s, TRUE, a.describe)
    IN  IF columns = <<>> /\ d.raised THEN Threw("query failed")
        ELSE LET cols == IF columns = <<>> THEN [i \in 1..Len(d.rows) |-> d.rows[i].name]
                         ELSE columns
                 c == ExecuteQuery(s, TRUE, a.count)
             IN  IF FirstRowError(c) # "none" THEN Threw(FirstRowError(c))
                 ELSE CompletenessColumns(s,
                          [check_type |-> "COMPLETENESS", table |-> full_table_name,
                           total_rows |-> c.rows[1].TOTAL_ROWS, columns |-> <<>>,
                           overall_status |-> "PASSED"],
                          cols, threshold, a.nulls)
\* DataQualityValidator.check_completeness
check_completeness(s, full_table_name, columns, threshold, a) ==
    CheckHandler("COMPLETENESS", full_table_name,
                 CompletenessBody(s, full_table_name, columns, threshold, a))
\* the duplicate query with the number of distinct values in the place of the
\* difference
DupQueryAnswer_distinct(ans) ==
    IF ans.fail \/ ans.rows = <<>> THEN ans
    ELSE Rows(<<Update(ans.rows[1], [DUPLICATE_COUNT |-> ans.rows[1].DISTINCT_COUNT])>>)
\* what the warehouse answers to the duplicate query of check_uniqueness:
\* COUNT(*), COUNT(DISTINCT column) and their difference
DupQueryAnswer(ans) ==
    IF ans.fail \/ ans.rows = <<>> THEN ans
    ELSE Rows(<<Update(ans.rows[1],
                       [DUPLICATE_COUNT |-> ans.rows[1].TOTAL_COUNT - ans.rows[1].DISTINCT_COUNT])>>)
RECURSIVE UniquenessColumns(_, _, _, _)
\* the loop of check_uniqueness over the columns
UniquenessColumns(s, res, columns, dups) ==
    IF columns = <<>> THEN Done(res)
    ELSE LET q == ExecuteQuery(s, TRUE, DupQueryAnswer(dups[Head(columns)]))
         IN  IF FirstRowError(q) # "none" THEN Threw(FirstRowError(q))
             ELSE LET row == q.rows[1]
                      status == IF row.DUPLICATE_COUNT = 0 THEN "PASSED" ELSE "FAILED"
                      col == [column_name |-> Head(columns),
                              total_count |-> row.TOTAL_COUNT,
                              distinct_count |-> row.DISTINCT_COUNT,
                              duplicate_count |-> row.DUPLICATE_COUNT,
                              uniqueness_ratio |-> Ratio(row.DISTINCT_COUNT, row.TOTAL_COUNT),
                              status |-> status]
                  IN  UniquenessColumns(s,
                          [res EXCEPT !.columns = Append(@, col),
                                      !.overall_status = IF status = "FAILED" THEN "FAILED" ELSE @],
                          Tail(columns), dups)
\* DataQualityValidator.check_uniqueness
check_uniqueness(s, full_table_name, columns, dups) ==
    CheckHandler("UNIQUENESS", full_table_name,
                 UniquenessColumns(s, [check_type |-> "UNIQUENESS", table |-> full_table_name,
                                       columns |-> <<>>, overall_status |-> "PASSED"],
                                   columns, dups))
\* a number in a nullable column of a row
Hours(n) ==
    [hours |-> n]
\* what the warehouse answers to the invalid query of check_validity over the
\* rows whose column is not NULL: COUNT(*), and the SUM of one per row that breaks
\* the rule, which is NULL and not 0 when there is no such row at all
InvalidQueryAnswer(ans) ==
    IF ans.fail \/ ans.rows = <<>> THEN ans
    ELSE Rows(<<[TOTAL_COUNT |-> ans.rows[1].non_null,
                 INVALID_COUNT |-> IF ans.rows[1].non_null = 0 THEN None
                                   ELSE Hours(ans.rows[1].breaking)]>>)
RECURSIVE ValidityRules(_, _, _, _)
\* the loop of check_validity over the rules, a list of [column, rule]; None == 0
\* is False, and total_count > 0 is tested before invalid_count is subtracted
ValidityRules(s, res, rules, invalid) ==
    IF rules = <<>> THEN Done(res)
    ELSE LET q == ExecuteQuery(s, TRUE, InvalidQueryAnswer(invalid[Head(rules).column]))
         IN  IF FirstRowError(q) # "none" THEN Threw(FirstRowError(q))
             ELSE LET row == q.rows[1]
                      status == IF row.INVALID_COUNT = Hours(0) THEN "PASSED" ELSE "FAILED"
                      r == [column_name |-> Head(rules).column,
                            rule |-> Head(rules).rule,
                            total_count |-> row.TOTAL_COUNT,
                            invalid_count |-> row.INVALID_COUNT,
                            validity_ratio |->
                                IF row.TOTAL_COUNT > 0
                                THEN Ratio(row.TOTAL_COUNT - row.INVALID_COUNT.hours,
                                           row.TOTAL_COUNT)
                                ELSE Ratio(0, 0),
                            status |-> status]
                  IN  ValidityRules(s,
                          [res EXCEPT !.rules = Append(@, r),
                                      !.overall_status = IF status = "FAILED" THEN "FAILED" ELSE @],
                          Tail(rules), invalid)
\* DataQualityValidator.check_validity
check_validity(s, full_table_name, validation_rules, invalid) ==
    CheckHandler("VALIDITY", full_table_name,
                 ValidityRules(s, [check_type |-> "VALIDITY", table |-> full_table_name,
                                   rules |-> <<>>, overall_status |-> "PASSED"],
                               validation_rules, invalid))
RECURSIVE ConsistencyChecks(_, _, _, _)
\* the loop of check_consistency, a definition without a query counted as failed
ConsistencyChecks_counting_unasked(s, res, checks, answers) ==
    IF checks = <<>> THEN Done(res)
    ELSE LET check == Head(checks)
         IN  IF Get(check, "query", "") = ""
             THEN ConsistencyChecks(s,
                      [res EXCEPT !.checks = Append(@, [check_name |-> Get(check, "name", "unnamed_check"),
                                                        inconsistent_count |-> 0,
                                                        status |-> "FAILED"]),
                                  !.overall_status = "FAILED"],
                      Tail(checks), answers)
             ELSE LET q == ExecuteQuery(s, TRUE, answers[check.query])
                  IN  IF q.raised THEN Threw("query failed")
                      ELSE LET inconsistent_count ==
                                   IF q.rows # <<>> THEN Get(q.rows[1], "INCONSISTENT_COUNT", 0)
                                   ELSE 0
                               status == IF inconsistent_count = 0 THEN "PASSED" ELSE "FAILED"
                               c == [check_name |-> Get(check, "name", "unnamed_check"),
                                     inconsistent_count |-> inconsistent_count,
                                     status |-> status]
                           IN  ConsistencyChecks(s,
                                   [res EXCEPT !.checks = Append(@, c),
                                               !.overall_status =
                                                   IF status = "FAILED" THEN "FAILED" ELSE @],
                                   Tail(checks), answers)
\* the loop of check_consistency over the check definitions
ConsistencyChecks(s, res, checks, answers) ==
    IF checks = <<>> THEN Done(res)
    ELSE LET check == Head(checks)
         IN  IF Get(check, "query", "") = ""
             THEN ConsistencyChecks(s, res, Tail(checks), answers)
             ELSE LET q == ExecuteQuery(s, TRUE, answers[check.query])
                  IN  IF q.raised THEN Threw("query failed")
                      ELSE LET inconsistent_count ==
                                   IF q.rows # <<>> THEN Get(q.rows[1], "INCONSISTENT_COUNT", 0)
                                   ELSE 0
                               status == IF inconsistent_count = 0 THEN "PASSED" ELSE "FAILED"
                               c == [check_name |-> Get(check, "name", "unnamed_check"),
                                     inconsistent_count |-> inconsistent_count,
                                     status |-> status]
                           IN  ConsistencyChecks(s,
                                   [res EXCEPT !.checks = Append(@, c),
                                               !.overall_status =
                                                   IF status = "FAILED" THEN "FAILED" ELSE @],
                                   Tail(checks), answers)
\* DataQualityValidator.check_consistency
check_consistency(s, full_table_name, consistency_checks, answers) ==
    CheckHandler("CONSISTENCY", full_table_name,
                 ConsistencyChecks(s, [check_type |-> "CONSISTENCY", table |-> full_table_name,
                                       checks |-> <<>>, overall_status |-> "PASSED"],
                                   consistency_checks, answers))
\* the try block of check_timeliness with an age equal to the maximum counted as
\* too old
TimelinessBody_strict(s, full_table_name, timestamp_column, max_age_hours, ans) ==
    LET q == ExecuteQuery(s, TRUE, ans)
    IN  IF FirstRowError(q) # "none" THEN Threw(FirstRowError(q))
        ELSE IF q.rows[1].AGE_HOURS = None
        THEN Threw("'<=' not supported between instances of 'NoneType' and 'int'")
        ELSE Done([check_type |-> "TIMELINESS", table |-> full_table_name,
                   timestamp_column |-> timestamp_column,
                   latest_timestamp |-> PyStr(q.rows[1].LATEST_TIMESTAMP),
                   age_hours |-> q.rows[1].AGE_HOURS.hours,
                   max_age_hours |-> max_age_hours,
                   status |-> IF q.rows[1].AGE_HOURS.hours < max_age_hours
                              THEN "PASSED" ELSE "FAILED"])
\* the try block of check_timeliness: an age of None cannot be compared with a number
TimelinessBody(s, full_table_name, timestamp_column, max_age_hours, ans) ==
    LET q == ExecuteQuery(s, TRUE, ans)
    IN  IF FirstRowError(q) # "none" THEN Threw(FirstRowError(q))
        ELSE IF q.rows[1].AGE_HOURS = None
        THEN Threw("'<=' not supported between instances of 'NoneType' and 'int'")
        ELSE Done([check_type |-> "TIMELINESS", table |-> full_table_name,
                   timestamp_column |-> timestamp_column,
                   latest_timestamp |-> PyStr(q.rows[1].LATEST_TIMESTAMP),
                   age_hours |-> q.rows[1].AGE_HOURS.hours,
                   max_age_hours |-> max_age_hours,
                   status |-> IF q.rows[1].AGE_HOURS.hours <= max_age_hours
                              THEN "PASSED" ELSE "FAILED"])
\* DataQualityValidator.check_timeliness
check_timeliness(s, full_table_name, timestamp_column, max_age_hours, ans) ==
    CheckHandler("TIMELINESS", full_table_name,
                 TimelinessBody(s, full_table_name, timestamp_column, max_age_hours, ans))
\* DataQualityValidator.run_comprehensive_validation, validator configuration cfg
run_comprehensive_validation(s, full_table_name, cfg, a) ==
    LET results0 == [table |-> full_table_name, checks |-> <<>>, overall_status |-> "PASSED"]
    IN  IF cfg.completeness_enabled
        THEN LET completeness == check_completeness(s, full_table_name, <<>>, cfg.threshold, a)
             IN  IF completeness.raised
                 THEN Returned([table |-> full_table_name, checks |-> <<>>,
                                overall_status |-> "ERROR", error |-> "check failed"])
                 ELSE Returned([results0 EXCEPT
                          !.checks = Append(@, completeness.value),
                          !.overall_status =
                              IF Get(completeness.value, "overall_status", "None") = "FAILED"
                              THEN "FAILED" ELSE @])
        ELSE Returned(results0)
\* result.get('status', result.get('overall_status', 'UNKNOWN'))
StatusOf(result) ==
    Get(result, "status", Get(result, "overall_status", "UNKNOWN"))
\* DataQualityValidator.save_validation_results: its error and the batches it hands over
save_validation_results(s, res, ddlOk, insertOk) ==
    IF CreateTableIfNotExists(s, TRUE, ddlOk).raised
    THEN [error |-> "dq_ddl", batches |-> <<>>]
    ELSE LET insert_data == [i \in 1..Len(res) |->
                                [table_name |-> Get(res[i], "table", ""),
                                 check_type |-> Get(res[i], "check_type", ""),
                                 check_status |-> StatusOf(res[i])]]
         IN  IF ExecuteMany(s, TRUE, insertOk).raised
             THEN [error |-> "dq_insert", batches |-> <<insert_data>>]
             ELSE [error |-> "none", batches |-> <<insert_data>>]
\* how many results have the given status field, overall_status not looked at
CountStatus_by_status(res, status) ==
    Cardinality({i \in DOMAIN res : Get(res[i], "status", "UNKNOWN") = status})
\* how many results have the given status
CountStatus(res, status) ==
    Cardinality({i \in DOMAIN res : StatusOf(res[i]) = status})
\* DataQualityValidator.generate_dq_report
generate_dq_report(res) ==
    [total_checks  |-> Len(res),
     passed_checks |-> CountStatus(res, "PASSED"),
     failed_checks |-> CountStatus(res, "FAILED"),
     error_checks  |-> CountStatus(res, "ERROR"),
     check_summary |-> [i \in 1..Len(res) |->
                           [table |-> Get(res[i], "table", None),
                            check_type |-> Get(res[i], "check_type", None),
                            status |-> StatusOf(res[i])]],
     success_rate  |-> Ratio(CountStatus(res, "PASSED"), Len(res))]

(***************************************************************************)
(* What the warehouse stub can answer to the data-quality queries.  As for *)
(* the introspection queries, a query that is not reached is written Fail. *)
(***************************************************************************)
\* the columns a check can be asked about
AllColumns ==
    {"c1", "c2", "id"}
\* the column lists a caller passes; the empty list stands for "all columns"
ColumnLists ==
    {<<>>, <<"c1">>, <<"c1", "c2">>}
\* the answers of the stub to each query of the checks: DESCRIBE TABLE, the row
\* count, the null count of a column, its duplicate count, the invalid count of a
\* rule, a consistency query, and the freshness query (MAX over no row is NULL)
DQAnswers ==
    [describe |-> {Fail, Rows(<<>>), Rows(<<[name |-> "c1"]>>),
                   Rows(<<[name |-> "c1"], [name |-> "c2"]>>)},
     count |-> {Fail, Rows(<<>>), Rows(<<[TOTAL_ROWS |-> 0]>>), Rows(<<[TOTAL_ROWS |-> 20]>>)},
     nulls |-> {Fail, Rows(<<>>), Rows(<<[NULL_COUNT |-> 0]>>), Rows(<<[NULL_COUNT |-> 1]>>),
                Rows(<<[NULL_COUNT |-> 2]>>)},
     dups |-> {Fail, Rows(<<>>),
               Rows(<<[TOTAL_COUNT |-> 0, DISTINCT_COUNT |-> 0]>>),
               Rows(<<[TOTAL_COUNT |-> 2, DISTINCT_COUNT |-> 2]>>),
               Rows(<<[TOTAL_COUNT |-> 2, DISTINCT_COUNT |-> 1]>>)},
     invalid |-> {Fail, Rows(<<>>), Rows(<<[non_null |-> 0, breaking |-> 0]>>),
                  Rows(<<[non_null |-> 2, breaking |-> 0]>>),
                  Rows(<<[non_null |-> 2, breaking |-> 1]>>)},
     inconsistent |-> {Fail, Rows(<<>>), Rows(<<[INCONSISTENT_COUNT |-> 0]>>),
                       Rows(<<[INCONSISTENT_COUNT |-> 3]>>)},
     freshness |-> {Fail, Rows(<<>>),
                    Rows(<<[LATEST_TIMESTAMP |-> Timestamp, AGE_HOURS |-> Hours(24)]>>),
                    Rows(<<[LATEST_TIMESTAMP |-> Timestamp, AGE_HOURS |-> Hours(48)]>>),
                    Rows(<<[LATEST_TIMESTAMP |-> None, AGE_HOURS |-> None]>>)}]
\* whether the method stops at this answer
Stops(ans) ==
    ans.fail \/ ans.rows = <<>>
\* the answers, one per column, to a method that asks about columns in turn
PerColumnAnswers(columns, Answers) ==
    {f \in [AllColumns -> Answers] :
        \A c \in AllColumns :
            (\/ c \notin Range(columns)
             \/ \E i, j \in DOMAIN columns : i < j /\ columns[j] = c /\ Stops(f[columns[i]]))
            => f[c] = Fail}
\* the columns check_completeness asks about under the answer to DESCRIBE
CompletenessColumnList(columns, describe) ==
    IF columns # <<>> THEN columns
    ELSE IF describe.fail THEN <<>>
    ELSE [i \in 1..Len(describe.rows) |-> describe.rows[i].name]
\* the answers to check_completeness called with the given column list
CompletenessAnswers(columns) ==
    {a \in [describe : DQAnswers.describe, count : DQAnswers.count,
            nulls : [AllColumns -> DQAnswers.nulls]] :
        /\ columns # <<>> => a.describe = Fail
        /\ (columns = <<>> /\ a.describe.fail) => a.count = Fail
        /\ a.nulls \in PerColumnAnswers(
               IF Stops(a.count) THEN <<>> ELSE CompletenessColumnList(columns, a.describe),
               DQAnswers.nulls)}
\* the answers to check_completeness asked about all columns, as the batch asks
CompletenessAnswersAll ==
    CompletenessAnswers(<<>>)
\* the answers the batch is run against: tables of at most one column
BatchCompletenessAnswers ==
    {a \in CompletenessAnswersAll : a.describe \in {Fail, Rows(<<[name |-> "c1"]>>)}}
\* the rule lists and check lists of the direct callers
RuleLists ==
    {<<>>, <<[column |-> "c1", rule |-> "c1 > 0"]>>,
     <<[column |-> "c1", rule |-> "c1 > 0"], [column |-> "c2", rule |-> "c2 > 0"]>>}
ConsistencyLists ==
    {<<>>, <<[name |-> "orphans", query |-> "c1"]>>,
     <<[name |-> "no_query"], [query |-> "c2"]>>}
\* the columns a rule list or a check list asks about, in order
RuleColumns(rules) ==
    [i \in 1..Len(rules) |-> rules[i].column]
QueryColumns(checks) ==
    LET asked == SelectSeq(checks, LAMBDA c : Get(c, "query", "") # "")
    IN  [i \in 1..Len(asked) |-> asked[i].query]
\* check_consistency stops at a failed query only
ConsistencyAnswers(checks) ==
    {f \in [AllColumns -> DQAnswers.inconsistent] :
        \A c \in AllColumns :
            (\/ c \notin Range(QueryColumns(checks))
             \/ \E i, j \in DOMAIN QueryColumns(checks) :
                   i < j /\ QueryColumns(checks)[j] = c /\ f[QueryColumns(checks)[i]].fail)
            => f[c] = Fail}
\* the validated tables
TableInfo1 ==
    [database |-> "D1", schema |-> "S1", table |-> "T1", primary_key |-> "c1",
     timestamp_column |-> "c2"]
TableInfo2 ==
    [database |-> "D1", schema |-> "S1", table |-> "T2"]
TableLists ==
    {<<>>, <<TableInfo1>>, <<TableInfo1, TableInfo2>>}
\* configuration: thresholds in percent, ages in hours
DQConfigs ==
    [completeness_enabled : BOOLEAN, threshold : {95}, uniqueness_enabled : BOOLEAN,
     timeliness_enabled : BOOLEAN, max_age_hours : {24}, export_json : {FALSE},
     tracked_databases : {<<>>}]

(***************************************************************************)
(* Callers of the validator: a script that calls the check methods one by  *)
(* one, and run_data_quality_validation with a table list.                 *)
(***************************************************************************)
\* the variables of the lineage tracker and of the metadata extractor
lineageVars ==
    <<all_dependencies, query_lineage, lineage_graph, lookup, ncalls>>
metadataVars ==
    <<catalog, meta_log>>
InitQuality ==
    /\ pc \in {"validator", "run_data_quality_validation"}
    /\ sf = Connect(InitialAdapter, TRUE).sf
    /\ pl_connection = "None"
    /\ config \in DQConfigs
    /\ dq_tables \in TableLists
    /\ (pc = "validator" => dq_tables = <<TableInfo1>> /\ config.uniqueness_enabled
                            /\ config.timeliness_enabled /\ config.completeness_enabled)
    /\ results = None
    /\ exc = "none"
    /\ steps = <<>>
    /\ faults = {}
    /\ idx = 1
    /\ all_results = <<>>
    /\ last_check = NoCall
    /\ RestMetadata /\ RestLineage
\* what a direct call leaves: the method, what it was called with and what the
\* stub answered, whether it raised, what it returned, and the exception its try
\* block stopped at
Called(op, args, r, body) ==
    [op |-> op, args |-> args, raised |-> r.raised, value |-> r.value, threw |-> body.exc]
\* a script calls check_completeness
ValidatorCheckCompleteness ==
    /\ pc = "validator"
    /\ \E columns \in ColumnLists :
         \E a \in CompletenessAnswers(columns) :
            last_check' = Called("check_completeness",
                [columns |-> columns, threshold |-> config.threshold, answers |-> a],
                check_completeness(sf, FullTableName(dq_tables[1]), columns, config.threshold, a),
                CompletenessBody(sf, FullTableName(dq_tables[1]), columns, config.threshold, a))
    /\ UNCHANGED <<sf, pl_connection, pc, config, results, exc, steps, faults, idx,
                   metadataVars, lineageVars, dq_tables, all_results>>
\* a script calls check_uniqueness
ValidatorCheckUniqueness ==
    /\ pc = "validator"
    /\ \E columns \in ColumnLists :
         \E dups \in PerColumnAnswers(columns, DQAnswers.dups) :
            last_check' = Called("check_uniqueness", [columns |-> columns, answers |-> dups],
                check_uniqueness(sf, FullTableName(dq_tables[1]), columns, dups),
                UniquenessColumns(sf, [columns |-> <<>>, overall_status |-> "PASSED"], columns, dups))
    /\ UNCHANGED <<sf, pl_connection, pc, config, results, exc, steps, faults, idx,
                   metadataVars, lineageVars, dq_tables, all_results>>
\* a script calls check_validity
ValidatorCheckValidity ==
    /\ pc = "validator"
    /\ \E rules \in RuleLists :
         \E invalid \in PerColumnAnswers(RuleColumns(rules), DQAnswers.invalid) :
            last_check' = Called("check_validity", [rules |-> rules, answers |-> invalid],
                check_validity(sf, FullTableName(dq_tables[1]), rules, invalid),
                ValidityRules(sf, [rules |-> <<>>, overall_status |-> "PASSED"], rules, invalid))
    /\ UNCHANGED <<sf, pl_connection, pc, config, results, exc, steps, faults, idx,
                   metadataVars, lineageVars, dq_tables, all_results>>
\* a script calls check_consistency
ValidatorCheckConsistency ==
    /\ pc = "validator"
    /\ \E checks \in ConsistencyLists :
         \E answers \in ConsistencyAnswers(checks) :
            last_check' = Called("check_consistency", [checks |-> checks, answers |-> answers],
                check_consistency(sf, FullTableName(dq_tables[1]), checks, answers),
                ConsistencyChecks(sf, [checks |-> <<>>, overall_status |-> "PASSED"], checks, answers))
    /\ UNCHANGED <<sf, pl_connection, pc, config, results, exc, steps, faults, idx,
                   metadataVars, lineageVars, dq_tables, all_results>>
\* a script calls check_timeliness
ValidatorCheckTimeliness ==
    /\ pc = "validator"
    /\ \E ans \in DQAnswers.freshness :
         last_check' = Called("check_timeliness", [max_age_hours |-> config.max_age_hours, answer |-> ans],
             check_timeliness(sf, FullTableName(dq_tables[1]), "c2", config.max_age_hours, ans),
             TimelinessBody(sf, FullTableName(dq_tables[1]), "c2", config.max_age_hours, ans))
    /\ UNCHANGED <<sf, pl_connection, pc, config, results, exc, steps, faults, idx,
                   metadataVars, lineageVars, dq_tables, all_results>>
\* the results a report is made of: check results with a status, validation
\* results with an overall_status, and results with neither
ReportedResults ==
    {[check_type |-> "TIMELINESS", status |-> "PASSED"],
     [check_type |-> "TIMELINESS", status |-> "FAILED"],
     [check_type |-> "TIMELINESS", status |-> "ERROR"],
     [table |-> "T1", overall_status |-> "PASSED"],
     [table |-> "T1", overall_status |-> "FAILED"],
     [table |-> "T1"]}
\* the result lists of at most MaxResults results
ResultLists ==
    UNION {[1..n -> ReportedResults] : n \in 0..MaxResults}
\* a script that makes a report of a result list
InitReport ==
    /\ pc = "report"
    /\ sf = Connect(InitialAdapter, TRUE).sf
    /\ pl_connection = "None"
    /\ config \in DQConfigs
    /\ dq_tables = <<>>
    /\ results = None
    /\ exc = "none"
    /\ steps = <<>>
    /\ faults = {}
    /\ idx = 1
    /\ all_results = <<>>
    /\ last_check = NoCall
    /\ RestMetadata /\ RestLineage
\* the script calls generate_dq_report
ValidatorGenerateReport ==
    /\ pc = "report"
    /\ last_check = NoCall
    /\ \E res \in ResultLists :
         last_check' = [op |-> "generate_dq_report", args |-> [results |-> res],
                        raised |-> FALSE, value |-> generate_dq_report(res),
                        threw |-> "none"]
    /\ UNCHANGED <<sf, pl_connection, pc, config, results, exc, steps, faults, idx,
                   metadataVars, lineageVars, dq_tables, all_results>>
\* the checks of one table in run_data_quality_validation (lines 195-223): the
\* results appended, and whether a check raised
ValidateTable(s, cfg, table_info, a, dups, fresh) ==
    LET name == FullTableName(table_info)
        result == run_comprehensive_validation(s, name, cfg, a)
        u == check_uniqueness(s, name, <<Get(table_info, "primary_key", "id")>>, dups)
        t == check_timeliness(s, name, Get(table_info, "timestamp_column", "created_at"),
                              cfg.max_age_hours, fresh)
    IN  IF result.raised THEN [raised |-> TRUE, value |-> <<>>]
        ELSE IF cfg.uniqueness_enabled /\ u.raised
        THEN [raised |-> TRUE, value |-> <<result.value>>]
        ELSE IF cfg.timeliness_enabled /\ t.raised
        THEN [raised |-> TRUE,
              value |-> <<result.value>> \o (IF cfg.uniqueness_enabled THEN <<u.value>> ELSE <<>>)]
        ELSE [raised |-> FALSE,
              value |-> <<result.value>>
                        \o (IF cfg.uniqueness_enabled THEN <<u.value>> ELSE <<>>)
                        \o (IF cfg.timeliness_enabled THEN <<t.value>> ELSE <<>>)]
\* one pass of the loop of run_data_quality_validation
DQValidateTable ==
    /\ pc = "run_data_quality_validation"
    /\ idx <= Len(dq_tables)
    /\ \E a \in (IF config.completeness_enabled THEN BatchCompletenessAnswers
                 ELSE {[describe |-> Fail, count |-> Fail, nulls |-> [c \in AllColumns |-> Fail]]}),
          d \in (IF config.uniqueness_enabled THEN DQAnswers.dups ELSE {Fail}),
          fresh \in (IF config.timeliness_enabled THEN DQAnswers.freshness ELSE {Fail}) :
         LET r == ValidateTable(sf, config, dq_tables[idx], a, [c \in AllColumns |-> d], fresh)
         IN  /\ all_results' = all_results \o r.value
             /\ pc' = IF r.raised THEN "raised" ELSE pc
             /\ exc' = IF r.raised THEN "check raised" ELSE exc
    /\ idx' = idx + 1
    /\ UNCHANGED <<sf, pl_connection, config, results, steps, faults,
                   metadataVars, lineageVars, dq_tables, last_check>>
\* the rest of run_data_quality_validation (lines 225-240): save, report, export
FinishValidation(s, cfg, res, ddlOk, insertOk, exportOk) ==
    LET saved == save_validation_results(s, res, ddlOk, insertOk)
    IN  IF saved.error # "none" THEN [error |-> saved.error, value |-> None]
        ELSE IF cfg.export_json /\ ~exportOk THEN [error |-> "dq_export", value |-> None]
        ELSE [error |-> "none", value |-> generate_dq_report(res)]
\* run_data_quality_validation after its loop
DQSave ==
    /\ pc = "run_data_quality_validation"
    /\ idx > Len(dq_tables)
    /\ \E ddlOk \in BOOLEAN, insertOk \in BOOLEAN :
         LET r == FinishValidation(sf, config, all_results, ddlOk, insertOk, TRUE)
         IN  /\ results' = r.value
             /\ exc' = r.error
             /\ faults' = faults \cup (IF r.error = "none" THEN {} ELSE {r.error})
             /\ pc' = IF r.error = "none" THEN "returned" ELSE "raised"
    /\ UNCHANGED <<sf, pl_connection, config, steps, idx,
                   metadataVars, lineageVars, dq_tables, all_results, last_check>>
NextQuality ==
    \/ ValidatorCheckCompleteness
    \/ ValidatorCheckUniqueness
    \/ ValidatorCheckValidity
    \/ ValidatorCheckConsistency
    \/ ValidatorCheckTimeliness
    \/ DQValidateTable
    \/ DQSave
SpecQuality ==
    InitQuality /\ [][NextQuality]_vars
NextReport ==
    ValidatorGenerateReport
SpecReport ==
    InitReport /\ [][NextReport]_vars

(***************************************************************************)
(* Lineage save, and the pipeline GovernancePipeline.run_full_pipeline.    *)
(***************************************************************************)
\* LineageTracker.save_lineage_to_snowflake: its error and the batches it hands over
save_lineage_to_snowflake(s, lineage_records, ddlOk, insertOk) ==
    IF CreateTableIfNotExists(s, TRUE, ddlOk).raised
    THEN [error |-> "lineage_ddl", batches |-> <<>>]
    ELSE IF \E i \in DOMAIN lineage_records :
               Get(lineage_records[i], "execution_time", UtcNowIso) \notin IsoStrings
    THEN [error |-> "lineage_bad_time", batches |-> <<>>]
    ELSE LET insert_data ==
                 [i \in 1..Len(lineage_records) |->
                     [lineage_id     |-> Get(lineage_records[i], "query_id", ""),
                      source_table   |-> Get(lineage_records[i], "source_table", <<>>),
                      target_table   |-> Get(lineage_records[i], "target_table", <<>>),
                      lineage_type   |-> Get(lineage_records[i], "query_type", "UNKNOWN"),
                      query_id       |-> Get(lineage_records[i], "query_id", ""),
                      user_name      |-> Get(lineage_records[i], "user_name", ""),
                      execution_time |-> Get(lineage_records[i], "execution_time", UtcNowIso)]]
         IN  IF ExecuteMany(s, TRUE, insertOk).raised
             THEN [error |-> "lineage_insert", batches |-> <<insert_data>>]
             ELSE [error |-> "none", batches |-> <<insert_data>>]
\* the warehouse calls of the metadata and lineage steps that can fail
MetadataLineageFailures ==
    {"metadata_query", "metadata_ddl", "metadata_insert",
     "lineage_query", "lineage_ddl", "lineage_insert"}
\* every call that can fail: the warehouse calls and the writes of the export files
CallFailures ==
    MetadataLineageFailures \cup {"connect", "dq_ddl", "dq_insert", "metadata_export", "dq_export"}
\* the failed call an error stands for, if it stands for one
FailedCall(error) ==
    IF error \in CallFailures THEN {error} ELSE {}
\* a try block that goes on to the next statement whatever happened
NextPc_ignoring(error, next) ==
    next
\* where control goes inside the try block of run_full_pipeline: an exception goes to
\* the except clause, anything else to the next statement
NextPc(error, next) ==
    IF error # "none" THEN "except" ELSE next
\* an except clause that leaves the result record as it is
MarkFailed_unmarked(res, error) ==
    res
\* results['status'] = 'FAILED'; results['error'] = str(e)
MarkFailed(res, error) ==
    Update(res, [status |-> "FAILED", error |-> error])
\* an event of the run: a step is called, a step has returned
StepEvent(step, event) ==
    [step |-> step, event |-> event]
\* the three steps in the order of run_full_pipeline
StepOrder ==
    <<StepEvent("metadata", "start"), StepEvent("metadata", "end"),
      StepEvent("lineage", "start"), StepEvent("lineage", "end"),
      StepEvent("data_quality", "start"), StepEvent("data_quality", "end")>>
\* the stub of a pipeline run: one schema, at most one table of one column per database
PipelineDbAnswers(db) ==
    {a \in DbAnswers(db) :
        /\ a.schemas # Rows(<<>>)
        /\ a.tables \in {Fail, Rows(<<TableRow(db, "T1")>>)}
        /\ a.describe["T1"] # Rows(<<>>)}
PipelineDepAnswers ==
    {Fail, Rows(<<>>), Rows(<<DepRow(ObjA, ObjB)>>)}
\* the configurations of a run
PipelineConfigs ==
    [tracked_databases : DatabaseLists, export_json : BOOLEAN]
\* the write of an export file is attempted only when export_json is configured
ExportChoices ==
    IF config.export_json THEN BOOLEAN ELSE {TRUE}
Init ==
    /\ pc = "idle"
    /\ sf = InitialAdapter
    /\ pl_connection = "None"
    /\ config \in PipelineConfigs
    /\ results = None
    /\ exc = "none"
    /\ steps = <<>>
    /\ faults = {}
    /\ idx = 0
    /\ RestMetadata /\ RestLineage /\ RestQuality
\* run_full_pipeline is called (lines 275-282)
PipelineStart ==
    /\ pc = "idle"
    /\ pc' = "connect"
    /\ results' = [pipeline_start |-> 0, metadata |-> None, lineage |-> None,
                   data_quality |-> None, status |-> "RUNNING"]
    /\ UNCHANGED <<sf, pl_connection, config, exc, steps, faults, idx,
                   metadataVars, lineageVars, dq_tables, all_results, last_check>>
\* lines 286-291: the adapter is made and connected; step 1 is called
PipelineConnect ==
    /\ pc = "connect"
    /\ \E ok \in BOOLEAN :
         LET c == Connect(NewAdapter(sf), ok)
             error == IF c.raised THEN "connect" ELSE "none"
         IN  /\ sf' = c.sf
             /\ exc' = error
             /\ faults' = faults \cup (IF ok THEN {} ELSE {"connect"})
             /\ pc' = NextPc(error, "run_metadata_extraction")
    /\ pl_connection' = "adapter"
    /\ steps' = IF pc' = "except" THEN steps
                ELSE Append(steps, StepEvent("metadata", "start"))
    /\ catalog' = IF pc' = "except" THEN catalog ELSE EmptyCatalog
    /\ idx' = 1
    /\ UNCHANGED <<config, results, meta_log, lineageVars, dq_tables, all_results, last_check>>
\* one pass of the loop of extract_full_metadata, called by run_metadata_extraction
PipelineExtractDatabase ==
    /\ pc = "run_metadata_extraction"
    /\ idx <= Len(config.tracked_databases)
    /\ \E a \in PipelineDbAnswers(config.tracked_databases[idx]) :
         LET r == ExtractOneDatabase(sf, catalog, config.tracked_databases[idx], a)
         IN  /\ catalog' = r.catalog
             /\ meta_log' = Append(meta_log, [db |-> config.tracked_databases[idx],
                                              answer |-> a, failed |-> r.failed])
             /\ faults' = faults \cup (IF NoQueryFailed(a) THEN {} ELSE {"metadata_query"})
    /\ idx' = idx + 1
    /\ UNCHANGED <<sf, pl_connection, pc, config, results, exc, steps,
                   lineageVars, dq_tables, all_results, last_check>>
\* the rest of run_metadata_extraction (lines 99-111), and step 2 is called
PipelineSaveMetadata ==
    /\ pc = "run_metadata_extraction"
    /\ idx > Len(config.tracked_databases)
    /\ \E ddlOk \in BOOLEAN, insertOk \in BOOLEAN, exportOk \in ExportChoices :
         LET saved == save_metadata_to_snowflake(sf, catalog, ddlOk, insertOk)
             error == IF saved.error # "none" THEN saved.error
                      ELSE IF ~exportOk THEN "metadata_export" ELSE "none"
         IN  /\ exc' = error
             /\ faults' = faults \cup FailedCall(error)
             /\ pc' = NextPc(error, "run_lineage_tracking")
             /\ results' = IF error = "none" THEN [results EXCEPT !.metadata = catalog]
                           ELSE results
    /\ steps' = IF pc' = "except" THEN steps
                ELSE steps \o <<StepEvent("metadata", "end"), StepEvent("lineage", "start")>>
    /\ idx' = 1
    /\ lineage_graph' = EmptyGraph
    /\ all_dependencies' = <<>>
    /\ UNCHANGED <<sf, pl_connection, config, metadataVars, query_lineage, lookup, ncalls,
                   dq_tables, all_results, last_check>>
\* one pass of the loop of run_lineage_tracking (lines 139-141)
PipelineExtractDependencies ==
    /\ pc = "run_lineage_tracking"
    /\ idx <= Len(config.tracked_databases)
    /\ \E ans \in PipelineDepAnswers :
         LET r == extract_table_dependencies(sf, lineage_graph, TRUE, ans)
             error == IF r.raised THEN "lineage_query" ELSE "none"
         IN  /\ lineage_graph' = r.graph
             /\ all_dependencies' = all_dependencies \o r.value
             /\ exc' = error
             /\ faults' = faults \cup (IF ans.fail THEN {"lineage_query"} ELSE {})
             /\ pc' = NextPc(error, pc)
    /\ idx' = idx + 1
    /\ UNCHANGED <<sf, pl_connection, config, results, steps, metadataVars,
                   query_lineage, lookup, ncalls, dq_tables, all_results, last_check>>
\* run_lineage_tracking asks for the lineage of the query history (line 145)
PipelineExtractQueryHistory ==
    /\ pc = "run_lineage_tracking"
    /\ idx > Len(config.tracked_databases)
    /\ \E ans \in HistoryAnswers, order \in HashOrders :
         LET r == extract_query_history_lineage(sf, lineage_graph, TRUE, ans, order)
             error == IF r.raised THEN "lineage_query" ELSE "none"
         IN  /\ lineage_graph' = r.graph
             /\ query_lineage' = r.value
             /\ exc' = error
             /\ faults' = faults \cup (IF ans.fail THEN {"lineage_query"} ELSE {})
             /\ pc' = NextPc(error, "save_lineage_to_snowflake")
    /\ UNCHANGED <<sf, pl_connection, config, results, steps, idx, metadataVars,
                   all_dependencies, lookup, ncalls, dq_tables, all_results, last_check>>
\* the rest of run_lineage_tracking (lines 148-164), and step 3 is called without tables;
\* export_lineage_graph keeps its errors to itself
PipelineSaveLineage ==
    /\ pc = "save_lineage_to_snowflake"
    /\ \E ddlOk \in BOOLEAN, insertOk \in BOOLEAN :
         LET saved == save_lineage_to_snowflake(sf, all_dependencies \o query_lineage,
                                                ddlOk, insertOk)
         IN  /\ exc' = saved.error
             /\ faults' = faults \cup FailedCall(saved.error)
             /\ pc' = NextPc(saved.error, "run_data_quality_validation")
             /\ results' = IF saved.error = "none"
                           THEN [results EXCEPT !.lineage =
                                    [dependencies |-> all_dependencies,
                                     query_lineage |-> query_lineage,
                                     total_lineage_records |->
                                         Len(all_dependencies \o query_lineage)]]
                           ELSE results
             /\ last_check' = [op |-> "save_lineage_to_snowflake",
                                args |-> all_dependencies \o query_lineage,
                                error |-> saved.error, batches |-> saved.batches]
    /\ steps' = IF pc' = "except" THEN steps
                ELSE steps \o <<StepEvent("lineage", "end"), StepEvent("data_quality", "start")>>
    /\ dq_tables' = <<>>
    /\ all_results' = <<>>
    /\ idx' = 1
    /\ UNCHANGED <<sf, pl_connection, config, metadataVars, all_dependencies, query_lineage,
                   lineage_graph, lookup, ncalls>>
\* run_data_quality_validation on the empty table list of _get_tables_from_metadata
PipelineDataQuality ==
    /\ pc = "run_data_quality_validation"
    /\ idx > Len(dq_tables)
    /\ \E ddlOk \in BOOLEAN, insertOk \in BOOLEAN, exportOk \in ExportChoices :
         LET r == FinishValidation(sf, config, all_results, ddlOk, insertOk, exportOk)
         IN  /\ exc' = r.error
             /\ faults' = faults \cup FailedCall(r.error)
             /\ pc' = NextPc(r.error, "complete")
             /\ results' = IF r.error = "none" THEN [results EXCEPT !.data_quality = r.value]
                           ELSE results
             /\ last_check' = [op |-> "save_validation_results", args |-> all_results,
                                error |-> r.error,
                                batches |-> save_validation_results(sf, all_results,
                                                                    ddlOk, insertOk).batches]
    /\ steps' = IF pc' = "except" THEN steps
                ELSE Append(steps, StepEvent("data_quality", "end"))
    /\ UNCHANGED <<sf, pl_connection, config, idx, metadataVars, lineageVars,
                   dq_tables, all_results>>
\* lines 301-312: the run is stamped and marked COMPLETED
PipelineComplete ==
    /\ pc = "complete"
    /\ \E elapsed \in 0..MaxElapsed :
         results' = Update(results, [pipeline_end |-> results.pipeline_start + elapsed,
                                     duration_seconds |-> elapsed,
                                     status |-> "COMPLETED"])
    /\ pc' = "finally"
    /\ UNCHANGED <<sf, pl_connection, config, exc, steps, faults, idx,
                   metadataVars, lineageVars, dq_tables, all_results, last_check>>
\* the except clause (lines 314-318); the exception stays pending
PipelineExcept ==
    /\ pc = "except"
    /\ results' = MarkFailed(results, exc)
    /\ pc' = "finally"
    /\ UNCHANGED <<sf, pl_connection, config, exc, steps, faults, idx,
                   metadataVars, lineageVars, dq_tables, all_results, last_check>>
\* the finally clause (lines 320-323), after which the run returns or raises
PipelineFinally ==
    /\ pc = "finally"
    /\ sf' = IF pl_connection # "None" THEN Close(sf) ELSE sf
    /\ pc' = IF exc = "none" THEN "returned" ELSE "raised"
    /\ UNCHANGED <<pl_connection, config, results, exc, steps, faults, idx,
                   metadataVars, lineageVars, dq_tables, all_results, last_check>>
Next ==
    \/ PipelineStart
    \/ PipelineConnect
    \/ PipelineExtractDatabase
    \/ PipelineSaveMetadata
    \/ PipelineExtractDependencies
    \/ PipelineExtractQueryHistory
    \/ PipelineSaveLineage
    \/ PipelineDataQuality
    \/ PipelineComplete
    \/ PipelineExcept
    \/ PipelineFinally
Spec ==
    Init /\ [][Next]_vars

(***************************************************************************)
(* The query-text heuristic on its own: statements put together from a     *)
(* head, a target name and a source name, and parsed as the tracker parses *)
(* the text of a query.                                                    *)
(***************************************************************************)
\* the pieces of a statement: "CREATE TABLE IF NOT EXISTS ", "CREATE TABLE ", "CREATE OR REPLACE TABLE ", "INSERT INTO ";
\* the names T, D.S.T, S, D.S.S, A.B; and " AS SELECT * FROM "
Statement ==
    [create_if_not_exists |-> <<"C","R","E","A","T","E"," ","T","A","B","L","E"," ","I","F"," ","N","O","T"," ","E","X","I","S","T","S"," ">>,
     heads |-> {<<"C","R","E","A","T","E"," ","T","A","B","L","E"," ","I","F"," ","N","O","T"," ","E","X","I","S","T","S"," ">>,
               <<"C","R","E","A","T","E"," ","T","A","B","L","E"," ">>,
               <<"C","R","E","A","T","E"," ","O","R"," ","R","E","P","L","A","C","E"," ","T","A","B","L","E"," ">>,
               <<"I","N","S","E","R","T"," ","I","N","T","O"," ">>},
     names |-> {<<"T">>, <<"D",".","S",".","T">>, <<"S">>, <<"D",".","S",".","S">>, <<"A",".","B">>},
     select_from |-> <<" ","A","S"," ","S","E","L","E","C","T"," ","*"," ","F","R","O","M"," ">>]
\* the statement head t AS SELECT * FROM s
StatementText(head, t, s) ==
    head \o t \o Statement.select_from \o s
InitParse ==
    /\ pc = "parse"
    /\ sf = InitialAdapter
    /\ pl_connection = "None"
    /\ RestPipeline /\ RestMetadata /\ RestQuality
    /\ all_dependencies = <<>>
    /\ query_lineage = <<>>
    /\ lineage_graph = EmptyGraph
    /\ ncalls = 0
    /\ \E head \in Statement.heads, t \in Statement.names, s \in Statement.names :
         lookup = [op |-> "none", head |-> head, target |-> t, source |-> s,
                   query_text |-> StatementText(head, t, s)]
\* the three helpers of extract_query_history_lineage applied to one query text
TrackerParseQuery ==
    /\ pc = "parse"
    /\ lookup.op = "none"
    /\ lookup' = Update(lookup,
                        [op |-> "parse",
                         sources |-> extract_source_tables(lookup.query_text),
                         targets |-> extract_target_tables(lookup.query_text),
                         query_type |-> determine_query_type(lookup.query_text)])
    /\ UNCHANGED <<sf, pl_connection, pc, config, results, exc, steps, faults, idx,
                   metadataVars, all_dependencies, query_lineage, lineage_graph, ncalls,
                   dq_tables, all_results, last_check>>
NextParse ==
    TrackerParseQuery
SpecParse ==
    InitParse /\ [][NextParse]_vars

(***************************************************************************)
(* Construction of the adapter and of the orchestrator from a              *)
(* configuration file that can be missing.                                 *)
(***************************************************************************)
\* what open and yaml.safe_load can find at config/config.yaml: no file, a file
\* that cannot be read as YAML, or a file with a configuration in it
ConfigFiles ==
    {[state |-> "missing"], [state |-> "invalid"], [state |-> "ok", content |-> EmptyDict]}
    \cup {[state |-> "ok", content |-> c] : c \in PipelineConfigs \cup DQConfigs}
\* SnowflakeConnection._load_config: only FileNotFoundError is caught
SnowflakeConnection_load_config(file) ==
    IF file.state = "missing" THEN [raised |-> FALSE, value |-> EmptyDict, log |-> "warning"]
    ELSE IF file.state = "invalid" THEN [raised |-> TRUE, value |-> None, log |-> "none"]
    ELSE [raised |-> FALSE, value |-> file.content, log |-> "none"]
\* a _load_config of the orchestrator that goes on with no configuration
GovernancePipeline_load_config_defaulting(file) ==
    IF file.state = "missing" THEN [raised |-> FALSE, value |-> EmptyDict, log |-> "warning"]
    ELSE IF file.state = "invalid" THEN [raised |-> TRUE, value |-> None, log |-> "error"]
    ELSE [raised |-> FALSE, value |-> file.content, log |-> "info"]
\* GovernancePipeline._load_config: every exception is logged as an error and
\* raised again
GovernancePipeline_load_config(file) ==
    IF file.state = "missing" THEN [raised |-> TRUE, value |-> None, log |-> "error"]
    ELSE IF file.state = "invalid" THEN [raised |-> TRUE, value |-> None, log |-> "error"]
    ELSE [raised |-> FALSE, value |-> file.content, log |-> "info"]
InitConstruct ==
    /\ pc = "construct"
    /\ sf = InitialAdapter
    /\ pl_connection = "None"
    /\ config = None
    /\ results = None
    /\ exc = "none"
    /\ steps = <<>>
    /\ faults = {}
    /\ idx = 0
    /\ RestMetadata /\ RestLineage /\ RestQuality
\* SnowflakeConnection(config_path): the file is at config/config.yaml if anywhere
ConstructAdapter ==
    /\ pc = "construct"
    /\ \E file \in ConfigFiles, config_path \in {"config/config.yaml", "nowhere.yaml"} :
         LET found == IF config_path = "config/config.yaml" THEN file
                      ELSE [state |-> "missing"]
             r == SnowflakeConnection_load_config(found)
         IN  /\ last_check' = [op |-> "SnowflakeConnection",
                               args |-> [config_path |-> config_path, file |-> file,
                                         found |-> found],
                               raised |-> r.raised, value |-> r.value, log |-> r.log]
             /\ config' = r.value
             /\ sf' = IF r.raised THEN sf ELSE NewAdapter(sf)
             /\ pc' = IF r.raised THEN "raised" ELSE "adapter"
             /\ exc' = IF r.raised THEN "config" ELSE exc
    /\ UNCHANGED <<pl_connection, results, steps, faults, idx,
                   metadataVars, lineageVars, dq_tables, all_results>>
\* GovernancePipeline(config_path)
ConstructPipeline ==
    /\ pc = "construct"
    /\ \E file \in ConfigFiles, config_path \in {"config/config.yaml", "nowhere.yaml"} :
         LET found == IF config_path = "config/config.yaml" THEN file
                      ELSE [state |-> "missing"]
             r == GovernancePipeline_load_config(found)
         IN  /\ last_check' = [op |-> "GovernancePipeline",
                               args |-> [config_path |-> config_path, file |-> file,
                                         found |-> found],
                               raised |-> r.raised, value |-> r.value, log |-> r.log]
             /\ config' = r.value
             /\ pc' = IF r.raised THEN "raised" ELSE "idle"
             /\ exc' = IF r.raised THEN "config" ELSE exc
    /\ UNCHANGED <<sf, pl_connection, results, steps, faults, idx,
                   metadataVars, lineageVars, dq_tables, all_results>>
\* the constructed adapter connects, with whatever configuration it has
AdapterConnect ==
    /\ pc = "adapter"
    /\ \E ok \in BOOLEAN :
         /\ sf' = Connect(sf, ok).sf
         /\ pc' = IF ok THEN "connected" ELSE "raised"
         /\ exc' = IF ok THEN exc ELSE "connect"
    /\ UNCHANGED <<pl_connection, config, results, steps, faults, idx,
                   metadataVars, lineageVars, dq_tables, all_results, last_check>>
NextConstruct ==
    \/ ConstructAdapter
    \/ ConstructPipeline
    \/ AdapterConnect
SpecConstruct ==
    InitConstruct /\ [][NextConstruct]_vars

(***************************************************************************)
(* Properties of the pipeline, the extractor and the validator.            *)
(***************************************************************************)
\* whether run_full_pipeline has ended
Ended ==
    pc \in {"returned", "raised"}
\* whether list s starts list t
IsPrefix(s, t) ==
    Len(s) <= Len(t) /\ s = SubSeq(t, 1, Len(s))

\* C1: the steps of run_full_pipeline are called and return in the fixed order
\* metadata, lineage, data quality, each called only once the one before it has
\* returned; a run that returns has run all three; and once the connect or a step
\* has raised, no step is called or returns any more.
C1_StepsInOrder ==
    /\ [](IsPrefix(steps, StepOrder) /\ (pc = "returned" => steps = StepOrder))
    /\ [][exc # "none" => steps' = steps]_vars
\* the lineage step raised after the metadata step returned: data quality never starts
C1_Witness ==
    /\ pc = "raised"
    /\ exc = "lineage_query"
    /\ steps = SubSeq(StepOrder, 1, 3)

\* C2: when run_full_pipeline has ended, by return or by raise, no driver connection
\* opened during the run is still open and the adapter holds none.
C2_ConnectionClosed ==
    Ended => sf.open = {} /\ sf.connection = NoConnection
\* a run that had opened a connection ends by raising out of a step
C2_Witness ==
    /\ pc = "raised"
    /\ exc = "metadata_insert"
    /\ sf.next > 1
    /\ sf.open = {}

\* C3: when the connect or a step raised, the result record is marked FAILED with the
\* error before the connection is closed, the connection is closed before the
\* exception reaches the caller, and the run ends by raising that exception, never
\* with status RUNNING or COMPLETED.
C3_FailedRunMarked ==
    /\ (pc \in {"finally", "raised"} /\ exc # "none")
           => results.status = "FAILED" /\ Get(results, "error", "none") = exc
    /\ pc = "raised" => exc # "none" /\ sf.open = {}
    /\ pc = "returned" => exc = "none"
    /\ (Ended /\ exc # "none") => pc = "raised" /\ results.status \notin {"RUNNING", "COMPLETED"}
\* the lineage save failed: the record is marked, the connection closed, the error raised
C3_Witness ==
    /\ pc = "raised"
    /\ exc = "lineage_insert"
    /\ results.status = "FAILED"
    /\ results.error = "lineage_insert"
    /\ sf.next > 1

\* C4 as stated: a run in which no call failed returns a result with status COMPLETED,
\* pipeline_start and pipeline_end set, duration_seconds >= 0 and non-null metadata,
\* lineage and data_quality sections.
C4_CannedRowsCompleted ==
    (Ended /\ faults = {})
    => /\ pc = "returned"
       /\ results.status = "COMPLETED"
       /\ {"pipeline_start", "pipeline_end", "duration_seconds"} \subseteq DOMAIN results
       /\ results.duration_seconds >= 0
       /\ results.metadata # None
       /\ results.lineage # None
       /\ results.data_quality # None

\* the checks run_data_quality_validation makes per table under the configuration
ChecksPerTable ==
    1 + (IF config.uniqueness_enabled THEN 1 ELSE 0) + (IF config.timeliness_enabled THEN 1 ELSE 0)
\* C5: a check method never raises: whenever its try block stopped at an exception, be
\* it a failed query or rows it cannot process, it returns a result of status ERROR
\* with the error message; so the batch over tables is never ended by a check and has
\* one result of every configured check for every table it has passed.
C5_ChecksNeverRaise ==
    /\ last_check.op # "none"
           => /\ ~last_check.raised
              /\ last_check.threw # "none"
                     => /\ last_check.value.status = "ERROR"
                        /\ last_check.value.error = last_check.threw
    /\ exc # "check raised"
    /\ pc = "run_data_quality_validation" => Len(all_results) = (idx - 1) * ChecksPerTable
\* a uniqueness check ended in ERROR on the first table and the batch went on to the
\* timeliness check and to the second table
C5_Witness ==
    /\ pc = "run_data_quality_validation"
    /\ idx = 3
    /\ config.uniqueness_enabled /\ config.timeliness_enabled
    /\ all_results[2].check_type = "UNIQUENESS"
    /\ StatusOf(all_results[2]) = "ERROR"
    /\ all_results[3].check_type = "TIMELINESS"
    /\ Len(all_results) = 6

\* C6 as stated: whenever a warehouse query or save of the metadata or lineage step
\* failed during the run, the run ends by raising.
C6_AnyFailureAborts ==
    (Ended /\ faults \cap MetadataLineageFailures # {}) => pc = "raised"
\* C6: a failed lineage query, a failed lineage save or a failed metadata save aborts
\* the run: it ends by raising that error and the failing step never returns; a failed
\* metadata extraction query ends the pass of its database only: it is caught by
\* extract_full_metadata and is never the error the run raises.
C6_FailLoudExceptExtraction ==
    /\ (Ended /\ faults \cap (MetadataLineageFailures \ {"metadata_query"}) # {})
           => /\ pc = "raised"
              /\ exc \in faults \cap (MetadataLineageFailures \ {"metadata_query"})
              /\ steps # <<>> /\ steps[Len(steps)].event = "start"
    /\ exc # "metadata_query"
    /\ \A i \in DOMAIN meta_log : meta_log[i].failed = ~NoQueryFailed(meta_log[i].answer)
\* an extraction query failed and the run went on, then a lineage query failed and the
\* run was aborted
C6_Witness ==
    /\ pc = "raised"
    /\ exc = "lineage_query"
    /\ "metadata_query" \in faults

\* the schema, table and column records the answers a hold for database db
ExpectedSchemas(db, a) ==
    {[database_name |-> db, schema_name |-> r.name] : r \in Range(a.schemas.rows)}
ExpectedTables(a) ==
    {[database_name |-> r.database_name, schema_name |-> r.schema_name, table_name |-> r.name] :
        r \in Range(a.tables.rows)}
ExpectedColumns(db, a) ==
    UNION {{[database_name |-> db, schema_name |-> t.schema_name, table_name |-> t.name,
             column_name |-> c.name] : c \in Range(a.describe[t.name].rows)} :
           t \in Range(a.tables.rows)}
\* whether the catalog holds anything of database db
HoldsAnythingOf(db) ==
    \/ \E d \in Range(catalog.databases) : d # None /\ d.database_name = db
    \/ \E r \in Range(catalog.schemas) \cup Range(catalog.tables) \cup Range(catalog.columns) :
          r.database_name = db
\* C7: in extract_full_metadata a failed query ends the pass of its database at that
\* point and is not raised; every database of the list gets its pass, in order; the
\* call returns the catalog; and the catalog holds every record of every database
\* whose queries all succeeded.
C7_PartialFailureTolerant ==
    /\ exc = "none" /\ pc # "raised"
    /\ pc = "returned" => Len(meta_log) = Len(config.tracked_databases) /\ results = catalog
    /\ \A i \in DOMAIN meta_log :
         LET db == meta_log[i].db
             a == meta_log[i].answer
         IN  /\ db = config.tracked_databases[i]
             /\ meta_log[i].failed = ~NoQueryFailed(a)
             /\ a.show.fail => ~HoldsAnythingOf(db)
             /\ a.schemas.fail => ~\E r \in Range(catalog.tables) \cup Range(catalog.columns) :
                                      r.database_name = db
             /\ NoQueryFailed(a)
                    => /\ a.show.rows # <<>> =>
                              \E d \in Range(catalog.databases) :
                                  d # None /\ d.database_name = a.show.rows[1].name
                       /\ ExpectedSchemas(db, a) \subseteq Range(catalog.schemas)
                       /\ ExpectedTables(a) \subseteq Range(catalog.tables)
                       /\ ExpectedColumns(db, a) \subseteq Range(catalog.columns)
\* the first database got through with its columns, the second failed after its
\* tables were listed, and the call returned
C7_Witness ==
    /\ pc = "returned"
    /\ Len(meta_log) = 2
    /\ NoQueryFailed(meta_log[1].answer)
    /\ ExpectedColumns(meta_log[1].db, meta_log[1].answer) # {}
    /\ meta_log[2].failed
    /\ ~meta_log[2].answer.tables.fail

\* C11 as stated: for the text CREATE TABLE IF NOT EXISTS t AS SELECT * FROM s the
\* targets found are exactly {t} and the sources found are {s} when s has a '.' in
\* it and none otherwise.
C11_CreateIfNotExistsTarget ==
    (lookup.op = "parse" /\ lookup.head = Statement.create_if_not_exists)
    => /\ lookup.targets = {lookup.target}
       /\ lookup.sources = IF "." \in Range(lookup.source) THEN {lookup.source} ELSE {}

C13_UniquenessPerColumn ==
    (last_check.op = "check_uniqueness" /\ last_check.threw = "none")
    => LET v == last_check.value
           columns == last_check.args.columns
           row(i) == last_check.args.answers[columns[i]].rows[1]
       IN  /\ Len(v.columns) = Len(columns)
           /\ \A i \in DOMAIN columns :
                /\ v.columns[i].column_name = columns[i]
                /\ v.columns[i].total_count = row(i).TOTAL_COUNT
                /\ v.columns[i].distinct_count = row(i).DISTINCT_COUNT
                /\ v.columns[i].duplicate_count = row(i).TOTAL_COUNT - row(i).DISTINCT_COUNT
                /\ v.columns[i].status = "FAILED" <=> v.columns[i].duplicate_count # 0
                /\ v.columns[i].status = "PASSED" <=> v.columns[i].duplicate_count = 0
           /\ v.overall_status = "FAILED"
                  <=> \E i \in DOMAIN columns : v.columns[i].status = "FAILED"
           /\ v.overall_status \in {"PASSED", "FAILED"}
\* two columns, the first without duplicates and the second with one
C13_Witness ==
    /\ last_check.op = "check_uniqueness"
    /\ last_check.threw = "none"
    /\ Len(last_check.value.columns) = 2
    /\ last_check.value.columns[1].status = "PASSED"
    /\ last_check.value.columns[2].duplicate_count = 1
    /\ last_check.value.columns[2].status = "FAILED"
    /\ last_check.value.overall_status = "FAILED"

\* C14 as stated: in a check_validity that ends without an error the sub-result of a
\* (column, rule) is FAILED iff at least one row has the column non-null and the
\* rule false, so it is PASSED when no row has the column non-null; overall_status
\* is FAILED iff some rule is FAILED.
C14_ValidityPerRule ==
    (last_check.op = "check_validity" /\ last_check.threw = "none")
    => LET v == last_check.value
           rules == last_check.args.rules
           data(i) == last_check.args.answers[rules[i].column].rows[1]
       IN  /\ Len(v.rules) = Len(rules)
           /\ \A i \in DOMAIN rules :
                v.rules[i].status = "FAILED"
                    <=> (data(i).non_null > 0 /\ data(i).breaking > 0)
           /\ v.overall_status = "FAILED"
                  <=> \E i \in DOMAIN rules : v.rules[i].status = "FAILED"

\* C15: a check_consistency that ends without an error holds one sub-result per
\* check definition that has a query, in order, FAILED iff its inconsistent_count
\* is not 0; a definition without a query leaves no sub-result and changes nothing;
\* overall_status is FAILED iff some sub-result is FAILED, PASSED otherwise.
C15_ConsistencyPerQuery ==
    (last_check.op = "check_consistency" /\ last_check.threw = "none")
    => LET v == last_check.value
           asked == SelectSeq(last_check.args.checks, LAMBDA c : "query" \in DOMAIN c)
           rows(i) == last_check.args.answers[asked[i].query].rows
       IN  /\ Len(v.checks) = Len(asked)
           /\ \A i \in DOMAIN asked :
                /\ v.checks[i].check_name
                       = (IF "name" \in DOMAIN asked[i] THEN asked[i].name ELSE "unnamed_check")
                /\ v.checks[i].inconsistent_count
                       = (IF rows(i) = <<>> THEN 0 ELSE rows(i)[1].INCONSISTENT_COUNT)
                /\ v.checks[i].status = "FAILED" <=> v.checks[i].inconsistent_count # 0
                /\ v.checks[i].status = "PASSED" <=> v.checks[i].inconsistent_count = 0
           /\ v.overall_status = "FAILED"
                  <=> \E i \in DOMAIN asked : v.checks[i].status = "FAILED"
           /\ v.overall_status \in {"PASSED", "FAILED"}
\* a definition without a query followed by one whose query counts three rows
C15_Witness ==
    /\ last_check.op = "check_consistency"
    /\ last_check.threw = "none"
    /\ Len(last_check.args.checks) = 2
    /\ "query" \notin DOMAIN last_check.args.checks[1]
    /\ Len(last_check.value.checks) = 1
    /\ last_check.value.checks[1].inconsistent_count = 3
    /\ last_check.value.overall_status = "FAILED"

\* C16: check_timeliness is FAILED iff the age it read is greater than max_age_hours
\* and PASSED iff the age is at most max_age_hours; when the freshness query gives
\* no age (it fails, has no row, or the age is NULL) the result is neither.
C16_TimelinessByAge ==
    last_check.op = "check_timeliness"
    => LET v == last_check.value
           ans == last_check.args.answer
           no_age == ans.fail \/ ans.rows = <<>> \/ ans.rows[1].AGE_HOURS = None
       IN  /\ ~last_check.raised
           /\ no_age => v.status \notin {"PASSED", "FAILED"}
           /\ ~no_age =>
                /\ v.age_hours = ans.rows[1].AGE_HOURS.hours
                /\ v.status = "FAILED" <=> v.age_hours > last_check.args.max_age_hours
                /\ v.status = "PASSED" <=> v.age_hours <= last_check.args.max_age_hours
\* an age equal to the maximum passes
C16_Witness ==
    /\ last_check.op = "check_timeliness"
    /\ last_check.threw = "none"
    /\ last_check.value.age_hours = last_check.args.max_age_hours
    /\ last_check.value.status = "PASSED"

\* C17 as stated: run_comprehensive_validation runs the completeness check iff it
\* is enabled, and its overall_status is PASSED only if every check it ran ended
\* PASSED: a check that ended FAILED or ERROR never leaves the overall PASSED.
C17_OverallFoldsChecks ==
    \A i \in DOMAIN all_results :
        "checks" \in DOMAIN all_results[i]
        => LET r == all_results[i]
           IN  /\ Len(r.checks) = (IF config.completeness_enabled THEN 1 ELSE 0)
               /\ r.overall_status = "PASSED"
                      => \A j \in DOMAIN r.checks : StatusOf(r.checks[j]) = "PASSED"

\* C18: generate_dq_report over a result list gives total_checks = the length of
\* the list, passed, failed and error counts = the number of results whose status
\* (field status, else overall_status) is PASSED, FAILED, ERROR, their sum at most
\* the total, and success_rate = passed / total, 0 for the empty list; for the
\* statuses PASSED, PASSED, FAILED, ERROR it gives 4, 2, 1, 1 and the rate 1/2.
C18_ReportCounts ==
    last_check.op = "generate_dq_report"
    => LET res == last_check.args.results
           rep == last_check.value
           status(i) == IF "status" \in DOMAIN res[i] THEN res[i].status
                        ELSE IF "overall_status" \in DOMAIN res[i] THEN res[i].overall_status
                        ELSE "UNKNOWN"
           n(s) == Cardinality({i \in DOMAIN res : status(i) = s})
       IN  /\ rep.total_checks = Len(res)
           /\ rep.passed_checks = n("PASSED")
           /\ rep.failed_checks = n("FAILED")
           /\ rep.error_checks = n("ERROR")
           /\ rep.passed_checks + rep.failed_checks + rep.error_checks <= rep.total_checks
           /\ rep.success_rate.den > 0
           /\ rep.success_rate.num * (IF Len(res) = 0 THEN 1 ELSE Len(res))
                  = n("PASSED") * rep.success_rate.den
           /\ [i \in DOMAIN res |-> status(i)] = <<"PASSED", "PASSED", "FAILED", "ERROR">>
                  => /\ rep.total_checks = 4 /\ rep.passed_checks = 2
                     /\ rep.failed_checks = 1 /\ rep.error_checks = 1
                     /\ rep.success_rate.num * 2 = rep.success_rate.den
\* the list PASSED, PASSED, FAILED, ERROR with a PASSED read from overall_status
C18_Witness ==
    /\ last_check.op = "generate_dq_report"
    /\ Len(last_check.args.results) = 4
    /\ "overall_status" \in DOMAIN last_check.args.results[1]
    /\ [i \in 1..4 |-> last_check.value.check_summary[i].status]
           = <<"PASSED", "PASSED", "FAILED", "ERROR">>
    /\ last_check.value.passed_checks = 2
    /\ last_check.value.success_rate.num * 2 = last_check.value.success_rate.den

\* C19 as stated: extract_table_statistics never raises; when its query fails it
\* returns an empty mapping; and whether the query fails, returns rows or returns
\* no row, the value it returns is a mapping.
C19_StatisticsAlwaysMapping ==
    last_check.op = "extract_table_statistics"
    => /\ ~last_check.raised
       /\ last_check.args.answer.fail => last_check.value = EmptyDict
       /\ last_check.value # None

\* C20 as stated: constructing the adapter or the orchestrator with a
\* configuration path at which there is no file does not raise and goes on with
\* an empty configuration.
C20_MissingConfigNonFatal ==
    (last_check.op \in {"SnowflakeConnection", "GovernancePipeline"}
        /\ last_check.args.found.state = "missing")
    => /\ ~last_check.raised
       /\ last_check.value = EmptyDict
\* C20, amended: with no file at the configuration path the adapter is constructed
\* without raising, with an empty configuration and a warning, while the
\* construction of the orchestrator logs an error and raises.
C20_MissingConfigAdapterOnly ==
    (last_check.op \in {"SnowflakeConnection", "GovernancePipeline"}
        /\ last_check.args.found.state = "missing")
    => IF last_check.op = "SnowflakeConnection"
       THEN /\ ~last_check.raised
            /\ last_check.value = EmptyDict
            /\ config = EmptyDict
            /\ last_check.log = "warning"
            /\ pc # "raised" \/ exc = "connect"
       ELSE /\ last_check.raised
            /\ last_check.log = "error"
            /\ pc = "raised"
\* the orchestrator constructed with a path at which there is no file, the file
\* itself being elsewhere
C20_Witness ==
    /\ last_check.op = "GovernancePipeline"
    /\ last_check.args.config_path = "nowhere.yaml"
    /\ last_check.args.file.state = "ok"
    /\ last_check.raised
    /\ pc = "raised"

(***************************************************************************)
(* Properties of the lineage tracker.                                      *)
(***************************************************************************)
\* the type of edge u -> v, "absent" when the graph has no such edge
EdgeType(u, v) ==
    IF <<u, v>> \in DOMAIN lineage_graph.attr THEN lineage_graph.attr[<<u, v>>].type ELSE "absent"
\* the tables of the ancestors list of a lookup result, as a caller reads it
AncestorSet(v) ==
    {x.table : x \in Range(Get(v, "ancestors", <<>>))}
\* the tables of the descendants list of a lookup result, as a caller reads it
DescendantSet(v) ==
    {x.table : x \in Range(Get(v, "descendants", <<>>))}
\* the (source, target) nodes of the dependency records extracted so far
DependencyPairs ==
    [i \in DOMAIN all_dependencies |->
        <<Dotted(all_dependencies[i].source_database, all_dependencies[i].source_schema,
                 all_dependencies[i].source_object),
          Dotted(all_dependencies[i].target_database, all_dependencies[i].target_schema,
                 all_dependencies[i].target_object)>>]
\* the (source, target) nodes of the query lineage records extracted so far
QueryPairs ==
    [i \in DOMAIN query_lineage |->
        <<query_lineage[i].source_table, query_lineage[i].target_table>>]
\* the nodes with an edge into t / out of t, read from the edges themselves
ImmediatePredecessors(t) ==
    {e[1] : e \in {x \in DOMAIN lineage_graph.attr : x[2] = t}}
ImmediateSuccessors(t) ==
    {e[2] : e \in {x \in DOMAIN lineage_graph.attr : x[1] = t}}
\* whether t is a node of the graph
InGraph(t) ==
    t \in Range(lineage_graph.node)

\* C8: once the dependency row (A, B) and the query lineage (C, B), A # C, are all
\* that was extracted, the graph has the edges A -> B of type DIRECT and C -> B of
\* type QUERY_BASED, the upstream lookup of B gives exactly the ancestors {A, C} and
\* the downstream lookup of A exactly the descendants {B}.
C8_DirectAndQueryEdges ==
    \A a, b, c \in LookupTables :
        (a # c /\ DependencyPairs = <<(<<a, b>>)>> /\ QueryPairs = <<(<<c, b>>)>>)
        => /\ EdgeType(a, b) = "DIRECT"
           /\ EdgeType(c, b) = "QUERY_BASED"
           /\ AncestorSet(get_upstream_lineage(lineage_graph, b, DefaultMaxDepth)) = {a, c}
           /\ DescendantSet(get_downstream_lineage(lineage_graph, a, DefaultMaxDepth)) = {b}
           /\ (lookup.op = "get_upstream_lineage" /\ lookup.table = b
                  => AncestorSet(lookup.value) = {a, c})
           /\ (lookup.op = "get_downstream_lineage" /\ lookup.table = a
                  => DescendantSet(lookup.value) = {b})
\* the dependency (A, B) and the query lineage (C, B) extracted, upstream of B looked up
C8_Witness ==
    /\ DependencyPairs = <<(<<NodeA, NodeB>>)>>
    /\ QueryPairs = <<(<<NodeC, NodeB>>)>>
    /\ lookup.op = "get_upstream_lineage"
    /\ lookup.table = NodeB

\* C9 as stated: a lookup of a table that is not a node of the graph does not raise
\* and returns a result whose ancestor (descendant) list is the empty list.
C9_UnknownTableEmptyList ==
    /\ (lookup.op = "get_upstream_lineage" /\ ~InGraph(lookup.table))
           => /\ ~lookup.raised
              /\ "ancestors" \in DOMAIN lookup.value
              /\ lookup.value.ancestors = <<>>
    /\ (lookup.op = "get_downstream_lineage" /\ ~InGraph(lookup.table))
           => /\ ~lookup.raised
              /\ "descendants" \in DOMAIN lookup.value
              /\ lookup.value.descendants = <<>>
\* C9 amended: a lookup of a table that is not a node of the graph does not raise and
\* returns the empty mapping, which has neither a table nor an ancestors (descendants)
\* entry, so a caller that reads the list with a default sees no ancestor; the full
\* lineage of such a table does not raise and holds these two empty mappings.
C9_UnknownTableEmptyMapping ==
    /\ (lookup.op \in {"get_upstream_lineage", "get_downstream_lineage"} /\ ~InGraph(lookup.table))
           => /\ ~lookup.raised
              /\ lookup.value = EmptyDict
              /\ AncestorSet(lookup.value) = {}
              /\ DescendantSet(lookup.value) = {}
    /\ (lookup.op = "get_full_lineage" /\ ~InGraph(lookup.table))
           => /\ ~lookup.raised
              /\ lookup.value.table = lookup.table
              /\ lookup.value.upstream = EmptyDict
              /\ lookup.value.downstream = EmptyDict
\* the upstream of a table looked up in a graph that has nodes but not this one
C9_Witness ==
    /\ lookup.op = "get_upstream_lineage"
    /\ lookup.table = UnknownTable
    /\ lineage_graph.node # <<>>
    /\ ~InGraph(UnknownTable)

C21_OneEdgePerExtraction ==
    \A u, v \in LookupTables :
        LET direct == Cardinality({i \in DOMAIN DependencyPairs : DependencyPairs[i] = <<u, v>>})
            query == Cardinality({i \in DOMAIN QueryPairs : QueryPairs[i] = <<u, v>>})
            edges(type) == IF EdgeType(u, v) = type THEN 1 ELSE 0
        IN  /\ edges("DIRECT") = direct
            /\ edges("QUERY_BASED") = query

\* C22: an extract_query_history_lineage that returns gives, for each row of the
\* query history, exactly one record per pair of (candidate sources x candidate
\* targets) of the row's upper-cased text, and nothing else; each such pair is then
\* an edge source -> target of type QUERY_BASED; a row without a candidate source or
\* without a candidate target gives no record and no edge.
C22_CrossProductPerRow ==
    (lookup.op = "extract_query_history_lineage" /\ ~lookup.raised)
    => LET rows == lookup.answer.rows
           sources(r) == extract_source_tables(Upper(rows[r].QUERY_TEXT))
           targets(r) == extract_target_tables(Upper(rows[r].QUERY_TEXT))
           Of(r, s, t) == {i \in DOMAIN lookup.value :
                              /\ lookup.value[i].query_id = rows[r].QUERY_ID
                              /\ lookup.value[i].source_table = s
                              /\ lookup.value[i].target_table = t}
       IN  /\ \A r \in DOMAIN rows : \A s \in sources(r), t \in targets(r) :
                /\ Cardinality(Of(r, s, t)) = 1
                /\ EdgeType(s, t) = "QUERY_BASED"
           /\ \A i \in DOMAIN lookup.value :
                \E r \in DOMAIN rows : \E s \in sources(r), t \in targets(r) : i \in Of(r, s, t)
           /\ \A e \in DOMAIN lineage_graph.attr \ DOMAIN lookup.before.attr :
                \E r \in DOMAIN rows : e[1] \in sources(r) /\ e[2] \in targets(r)
\* one row with two candidate sources and one candidate target
C22_Witness ==
    /\ lookup.op = "extract_query_history_lineage"
    /\ ~lookup.raised
    /\ Len(lookup.answer.rows) = 1
    /\ Len(lookup.value) = 2
    /\ lookup.value[1].source_table # lookup.value[2].source_table
    /\ lookup.value[1].target_table = lookup.value[2].target_table

\* the catalog records a save was handed, section after section
SavedRecords ==
    LET cat == last_check.args.catalog
    IN  [i \in 1..Len(cat.databases) |-> "DATABASE"] \o [i \in 1..Len(cat.schemas) |-> "SCHEMA"]
        \o [i \in 1..Len(cat.tables) |-> "TABLE"] \o [i \in 1..Len(cat.columns) |-> "COLUMN"]
\* C23 as stated: save_metadata_to_snowflake inserts with one batch per catalog
\* section, so that no batch handed to execute_many holds rows of two sections
C23_OneBatchPerSection ==
    last_check.op = "save_metadata_to_snowflake" =>
        \A b \in Range(last_check.batches) :
            \A i, j \in DOMAIN b : b[i].metadata_type = b[j].metadata_type
\* C23: save_metadata_to_snowflake creates the table first; when the creation fails, or
\* a record cannot be read, no insert is attempted; otherwise it makes exactly one
\* execute_many call, whose rows are one per catalog record, databases first, then
\* schemas, tables and columns
C23_OneBatchForCatalog ==
    last_check.op = "save_metadata_to_snowflake" =>
        /\ ~last_check.args.ddlOk => last_check.error = "metadata_ddl"
        /\ last_check.error \in {"metadata_ddl", "metadata_null_record"} =>
               last_check.batches = <<>>
        /\ last_check.error \in {"none", "metadata_insert"} =>
               /\ last_check.args.ddlOk
               /\ Len(last_check.batches) = 1
               /\ [i \in DOMAIN last_check.batches[1] |->
                      last_check.batches[1][i].metadata_type] = SavedRecords
\* a catalog with records in all four sections was saved
C23_Witness ==
    /\ last_check.op = "save_metadata_to_snowflake"
    /\ last_check.error = "none"
    /\ \A kind \in {"DATABASE", "SCHEMA", "TABLE", "COLUMN"} : kind \in Range(SavedRecords)
    /\ Len(SavedRecords) > 4

\* C25 as stated: every row save_lineage_to_snowflake writes for the records the
\* pipeline hands it, dependency records and query records alike, names a non-empty
\* source and a non-empty target, the two ends of an edge of the lineage graph
C25_LineageRowNamesEdge ==
    last_check.op = "save_lineage_to_snowflake" =>
        \A b \in Range(last_check.batches) :
            /\ Len(b) = Len(last_check.args)
            /\ \A i \in DOMAIN b :
                   /\ b[i].source_table # <<>>
                   /\ b[i].target_table # <<>>
                   /\ EdgeType(b[i].source_table, b[i].target_table) # "absent"

\* C26 as stated: a call of extract_table_dependencies or of
\* extract_query_history_lineage that raises leaves the lineage graph as it was
\* before the call
C26_RaisingCallKeepsGraph ==
    /\ lookup.op \in {"extract_table_dependencies", "extract_query_history_lineage"}
    /\ lookup.raised
    => lineage_graph = lookup.before

\* C27 as stated: every edge has the type DIRECT or QUERY_BASED, and an edge that
\* carries a query_id has the type QUERY_BASED
C27_QueryIdOnlyOnQueryEdges ==
    \A e \in DOMAIN lineage_graph.attr :
        /\ lineage_graph.attr[e].type \in {"DIRECT", "QUERY_BASED"}
        /\ "query_id" \in DOMAIN lineage_graph.attr[e] =>
               lineage_graph.attr[e].type = "QUERY_BASED"

\* C28 as stated: every entry of a catalog returned by extract_full_metadata is a
\* record, never null, and saving the catalog fails only when a warehouse call fails
C28_CatalogCanBeSaved ==
    /\ pc = "returned" =>
           \A i \in DOMAIN results.databases : Subscriptable(results.databases[i])
    /\ last_check.op = "save_metadata_to_snowflake" =>
           last_check.error \in {"none", "metadata_ddl", "metadata_insert"}
\* a returned catalog whose save raised without any warehouse call failing
NullRecordSaveReached ==
    /\ last_check.op = "save_metadata_to_snowflake"
    /\ last_check.error = "metadata_null_record"

\* C29: in run_full_pipeline the data-quality step has no table to validate: its
\* loop runs no check, save_validation_results is handed an empty batch, and the
\* data_quality section of the results, once set, has total_checks = 0 and
\* success_rate = 0
C29_PipelineRunsNoCheck ==
    /\ pc = "run_data_quality_validation" => dq_tables = <<>> /\ all_results = <<>>
    /\ last_check.op = "save_validation_results" =>
           /\ last_check.args = <<>>
           /\ \A b \in Range(last_check.batches) : b = <<>>
    /\ pc # "idle" =>
           (results.data_quality # None =>
               /\ last_check.op = "save_validation_results"
               /\ last_check.error = "none"
               /\ Len(last_check.batches) = 1
               /\ results.data_quality.total_checks = 0
               /\ results.data_quality.passed_checks = 0
               /\ results.data_quality.check_summary = <<>>
               /\ results.data_quality.success_rate = [num |-> 0, den |-> 1])
\* a run whose data-quality step ended and filled the data_quality section
C29_Witness ==
    /\ pc = "returned"
    /\ results.status = "COMPLETED"
    /\ results.data_quality # None
    /\ last_check.op = "save_validation_results"
    /\ last_check.batches = <<<<>>>>
    /\ config.tracked_databases # <<>>

(***************************************************************************)
(* A caller driving one SnowflakeConnection adapter: connect,              *)
(* execute_query, execute_many and close in any order.  The adapter record *)
(* also carries the rows the warehouse holds committed.                    *)
(***************************************************************************)
\* the adapter before any connect, in front of an empty table
InitialSession ==
    [connection |-> NoConnection, open |-> {}, next |-> 1, committed |-> <<>>]
\* the batches call number n can hand to execute_many
BatchesOf(n) ==
    {<<>>, <<[call |-> n, row |-> 1]>>, <<[call |-> n, row |-> 1], [call |-> n, row |-> 2]>>}
\* where the try block of execute_many can fail
BatchFailures ==
    {"none", "cursor", "executemany", "commit"}
\* an execute_many with no rollback: the rows the warehouse took before the failure stay
execute_many_keeping_partial(s, connOk, data, failure, done) ==
    LET c == IF s.connection = NoConnection THEN Connect(s, connOk)
             ELSE [sf |-> s, raised |-> FALSE]
        taken == IF failure = "cursor" THEN <<>>
                 ELSE IF failure = "executemany" THEN SubSeq(data, 1, done) ELSE data
    IN  IF c.raised
        THEN [sf |-> c.sf, raised |-> TRUE, attempted |-> FALSE, commits |-> 0, rollbacks |-> 0]
        ELSE [sf |-> [c.sf EXCEPT !.committed = @ \o taken], raised |-> failure # "none",
              attempted |-> TRUE, commits |-> IF failure = "none" THEN 1 ELSE 0, rollbacks |-> 0]
\* SnowflakeConnection.execute_many in full: the driver transaction takes the rows
\* executemany got through (all of them, or the first `done` when it fails), commit
\* makes them part of the table, rollback drops them
execute_many(s, connOk, data, failure, done) ==
    LET c == IF s.connection = NoConnection THEN Connect(s, connOk)
             ELSE [sf |-> s, raised |-> FALSE]
        pending == IF failure = "cursor" THEN <<>>
                   ELSE IF failure = "executemany" THEN SubSeq(data, 1, done) ELSE data
    IN  IF c.raised
        THEN [sf |-> c.sf, raised |-> TRUE, attempted |-> FALSE, commits |-> 0, rollbacks |-> 0]
        ELSE IF failure = "none"
        THEN [sf |-> [c.sf EXCEPT !.committed = @ \o pending], raised |-> FALSE,
              attempted |-> TRUE, commits |-> 1, rollbacks |-> 0]
        ELSE [sf |-> c.sf, raised |-> TRUE, attempted |-> TRUE, commits |-> 0, rollbacks |-> 1]
InitSession ==
    /\ pc = "session"
    /\ sf = InitialSession
    /\ pl_connection = "None"
    /\ RestPipeline /\ RestMetadata /\ RestLineage /\ RestQuality
\* the caller calls connect()
SessionConnect ==
    /\ pc = "session" /\ ncalls < MaxCalls
    /\ \E ok \in BOOLEAN :
         LET r == Connect(sf, ok)
         IN  /\ sf' = r.sf
             /\ last_check' = [op |-> "connect", raised |-> r.raised, before |-> sf]
    /\ ncalls' = ncalls + 1
    /\ UNCHANGED <<pl_connection, pc, config, results, exc, steps, faults, idx, metadataVars,
                   all_dependencies, query_lineage, lineage_graph, lookup,
                   dq_tables, all_results>>
\* the caller calls execute_query(query)
SessionExecuteQuery ==
    /\ pc = "session" /\ ncalls < MaxCalls
    /\ \E connOk \in ConnectChoices(sf), ans \in {Fail, Rows(<<>>)} :
         LET r == ExecuteQuery(sf, connOk, ans)
         IN  /\ sf' = r.sf
             /\ last_check' = [op |-> "execute_query", raised |-> r.raised, before |-> sf]
    /\ ncalls' = ncalls + 1
    /\ UNCHANGED <<pl_connection, pc, config, results, exc, steps, faults, idx, metadataVars,
                   all_dependencies, query_lineage, lineage_graph, lookup,
                   dq_tables, all_results>>
\* the caller calls execute_many(query, data)
SessionExecuteMany ==
    /\ pc = "session" /\ ncalls < MaxCalls
    /\ \E connOk \in ConnectChoices(sf), data \in BatchesOf(ncalls + 1),
          failure \in BatchFailures :
         \E done \in IF failure = "executemany" /\ data # <<>> THEN 0..(Len(data) - 1) ELSE {0} :
             LET r == execute_many(sf, connOk, data, failure, done)
             IN  /\ sf' = r.sf
                 /\ last_check' = [op |-> "execute_many", raised |-> r.raised, before |-> sf,
                                   data |-> data, attempted |-> r.attempted,
                                   commits |-> r.commits, rollbacks |-> r.rollbacks]
    /\ ncalls' = ncalls + 1
    /\ UNCHANGED <<pl_connection, pc, config, results, exc, steps, faults, idx, metadataVars,
                   all_dependencies, query_lineage, lineage_graph, lookup,
                   dq_tables, all_results>>
\* the caller calls close()
SessionClose ==
    /\ pc = "session" /\ ncalls < MaxCalls
    /\ sf' = Close(sf)
    /\ last_check' = [op |-> "close", raised |-> FALSE, before |-> sf]
    /\ ncalls' = ncalls + 1
    /\ UNCHANGED <<pl_connection, pc, config, results, exc, steps, faults, idx, metadataVars,
                   all_dependencies, query_lineage, lineage_graph, lookup,
                   dq_tables, all_results>>
NextSession ==
    \/ SessionConnect
    \/ SessionExecuteQuery
    \/ SessionExecuteMany
    \/ SessionClose
SpecSession ==
    InitSession /\ [][NextSession]_vars

\* C24: a call of execute_many that returns has committed exactly once and the table
\* then holds the rows it held before followed by the rows of the batch; a call whose
\* batch fails (at the cursor, in executemany, or at the commit) rolls back once,
\* commits nothing and raises, and a call that could not connect raises without
\* touching the table: in both cases the table holds exactly the rows it held before
C24_CommitOncePerBatch ==
    last_check.op = "execute_many" =>
        /\ ~last_check.raised =>
               /\ last_check.commits = 1 /\ last_check.rollbacks = 0
               /\ sf.committed = last_check.before.committed \o last_check.data
        /\ last_check.raised =>
               /\ last_check.commits = 0
               /\ last_check.rollbacks = IF last_check.attempted THEN 1 ELSE 0
               /\ sf.committed = last_check.before.committed
               /\ \A i \in DOMAIN last_check.data : last_check.data[i] \notin Range(sf.committed)
\* a batch of two rows failed after an earlier batch was committed
C24_Witness ==
    /\ last_check.op = "execute_many"
    /\ last_check.raised /\ last_check.attempted
    /\ Len(last_check.data) = 2
    /\ Len(sf.committed) > 0
\* C30 as stated: the adapter never has more than one driver connection open, and
\* right after a close() no driver connection it opened is still open
C30_NoConnectionLeftOpen ==
    /\ Cardinality(sf.open) <= 1
    /\ last_check.op = "close" => sf.open = {}
====
